---- MODULE Spec2Model ----
(***************************************************************************)
(* Verification model of the asynchronous consensus stack of the MPC       *)
(* auction: Bracha reliable broadcast (src/rbc.py), Ben-Or style binary    *)
(* agreement (src/protocols/ba.py) and agreement on a common set           *)
(* (src/protocols/acs.py) over the simulated network of                    *)
(* src/sim/network.py.                                                     *)
(*                                                                         *)
(* A handler runs on a cooperative scheduler: one action is one handler    *)
(* invocation, with every state change it makes.  Messages are delayed     *)
(* independently per send (Network.send samples a delay per message), so   *)
(* the messages in flight form a set and are handled in any order.         *)
(***************************************************************************)
EXTENDS Integers, Sequences, FiniteSets, TLC

(***************************************************************************)
(* Parameters of the deployment (tests: n, f = 4, 1).                      *)
(***************************************************************************)
N == 4
F == 1
Parties == 1..N

\* How many times the sender of the RBC instance may call broadcast().
MaxBroadcasts == 2

\* Payloads handed to RBCProtocol.broadcast: lists of party ids, as the
\* proposals of ACS and the list of test_rbc_agreement.
Payloads == { <<1, 2, 3>>, <<1, 2>> }

\* The last round of a BA instance the model follows.
MaxRound == 3

VARIABLES
    policy,     \* Network.omission_policy
    net,        \* the messages put on the channels and not yet handled
    rbc_sender, \* the sender of the RBC instance (sender, tag)
    bcast,      \* the payloads the sender has passed to broadcast(), in order
    inst,       \* inst[p]: the RBCInstance of (sender, tag) at party p
    ba,         \* ba[p]: the BAInstance of the BA index at party p
    ba_pc,      \* ba_pc[p]: where BAProtocol.run is at party p
    ba_input,   \* ba_input[p]: the initial_estimate party p calls run with
    beacon,     \* the RandomnessBeacon: _requests and _values
    acs,        \* acs[p]: the locals of ACSProtocol.run at party p
    css,        \* css[p]: the state of CSSProtocol for the session at party p
    css_deal,   \* the session's dealer, its polynomial and where share() is
    mpc,        \* mpc[p]: the state of MPCArithmetic for the gate at party p
    mpc_in,     \* the inputs of the gate: the sharings, the coins, the active set
    opn,        \* opn[p]: the state of open_value for the session at party p
    css_got,    \* css_got[p]: what get_share last answered at party p
    beacon_call,\* beacon_call[p]: the call of RandomnessBeacon.request of party p
    reveal,     \* reveal[p]: the state of reveal_to_owner at party p
    circ,       \* the circuit in evaluation: the shares of all parties per wire
    party,      \* party[p]: where Party.run is at party p, and its tasks
    chan        \* one MessageChannel, the sends under way on it, and the clock

rbc_vars == <<rbc_sender, bcast, inst>>
ba_vars == <<ba, ba_pc, ba_input, beacon>>
css_vars == <<css, css_deal>>
mpc_vars == <<mpc, mpc_in, opn>>
app_vars == <<css_got, beacon_call, reveal, circ, party, chan>>
vars == <<policy, net, rbc_vars, ba_vars, acs, css_vars, mpc_vars, app_vars>>

(***************************************************************************)
(* Omission policies (src/sim/network.py).                                 *)
(***************************************************************************)
\* A policy that drops what party j is to receive only.
DropAllReceive(j, direction) ==
    [kind |-> "DropAll", party_id |-> j, direction |-> "receive",
     drop_to |-> {}, msg_types |-> {}]

\* DropAll(party_id, direction), direction in {"send", "receive", "both"}.
DropAll(j, direction) ==
    [kind |-> "DropAll", party_id |-> j, direction |-> direction,
     drop_to |-> {}, msg_types |-> {}]

\* DropProb(party_id, p) with 0 < p < 1.
DropProb(j) ==
    [kind |-> "DropProb", party_id |-> j, direction |-> "send",
     drop_to |-> {}, msg_types |-> {}]

\* DropTypes(party_id, msg_types, p = 1.0).
DropTypes(j, T) ==
    [kind |-> "DropTypes", party_id |-> j, direction |-> "send",
     drop_to |-> {}, msg_types |-> T]

\* A policy that omits to nobody.
SelectiveOmissionNone(j, D) ==
    [kind |-> "SelectiveOmission", party_id |-> j, direction |-> "send",
     drop_to |-> {}, msg_types |-> {}]

\* SelectiveOmission(party_id, drop_to).
SelectiveOmission(j, D) ==
    [kind |-> "SelectiveOmission", party_id |-> j, direction |-> "send",
     drop_to |-> D, msg_types |-> {}]

\* The answers should_drop(sender, receiver, msg) of one policy can give.
\* DropProb draws a random number: both answers are possible.
ShouldDrop(pol, sender, receiver, msg_type) ==
    CASE pol.kind = "DropAll" ->
            { \/ (pol.direction \in {"send", "both"} /\ sender = pol.party_id)
              \/ (pol.direction \in {"receive", "both"} /\ receiver = pol.party_id) }
      [] pol.kind = "DropProb" ->
            IF sender = pol.party_id THEN {TRUE, FALSE} ELSE {FALSE}
      [] pol.kind = "DropTypes" ->
            {sender = pol.party_id /\ msg_type \in pol.msg_types}
      [] pol.kind = "SelectiveOmission" ->
            {sender = pol.party_id /\ receiver \in pol.drop_to}

\* Network.send's test of the omission policy.  The variable policy holds the
\* policies in force: none (omission_policy is None), one, or the members of a
\* CompositeOmission, which drops when any member drops.
MayDrop(sender, receiver, msg_type) ==
    \E pol \in policy : TRUE \in ShouldDrop(pol, sender, receiver, msg_type)

MayPass(sender, receiver, msg_type) ==
    \A pol \in policy : FALSE \in ShouldDrop(pol, sender, receiver, msg_type)

\* A party is correct when no policy names it as the omitting party.
Correct(p) == \A pol \in policy : pol.party_id # p

\* Network.broadcast(sender, msg) for every msg of out: one send per other
\* party.  The result is the set of sets of messages that can end up on the
\* channels.
Msg(t, from, to, payload) ==
    [msg_type |-> t, sender |-> from, to |-> to, payload |-> payload]

BroadcastAll(from, out) ==
    LET cand == { Msg(o.msg_type, from, j, o.payload) : o \in out, j \in Parties \ {from} }
    IN  { S \in SUBSET cand :
            \A m \in cand :
                /\ (m \in S) => MayPass(m.sender, m.to, m.msg_type)
                /\ (m \notin S) => MayDrop(m.sender, m.to, m.msg_type) }

(***************************************************************************)
(* RBC (src/rbc.py).                                                       *)
(***************************************************************************)
RECURSIVE JoinInts(_)
JoinInts(s) ==
    IF s = <<>> THEN ""
    ELSE IF Len(s) = 1 THEN ToString(s[1])
    ELSE ToString(s[1]) \o ", " \o JoinInts(Tail(s))

\* The key of the empty list.
PayloadKeyConstant(payload) == "[]"

\* RBCInstance._payload_key: json.dumps(payload, sort_keys=True) of a list.
PayloadKey(payload) == "[" \o JoinInts(payload) \o "]"

\* RBCInstance.__init__.  deliveries counts the executions of the delivery
\* branch (delivered_event.set()).
NewInstance ==
    [ echo_counts |-> <<>>, ready_counts |-> <<>>,
      sent_echo |-> FALSE, sent_ready |-> FALSE,
      delivered |-> FALSE, delivered_value |-> <<>>,
      deliveries |-> 0 ]

\* counts[pk].add(who), creating the set when pk is new.
AddTo(counts, pk, who) ==
    IF pk \in DOMAIN counts
    THEN [counts EXCEPT ![pk] = @ \cup {who}]
    ELSE [k \in DOMAIN counts \cup {pk} |-> IF k = pk THEN {who} ELSE counts[k]]

Out(t, payload) == [msg_type |-> t, payload |-> payload]

\* _on_ready amplifying on the first READY.
OnReadyOne(i, ready_from, payload) ==
    LET pk  == PayloadKey(payload)
        rc  == AddTo(i.ready_counts, pk, ready_from)
        amp == Cardinality(rc[pk]) >= F /\ ~i.sent_ready
        i1  == [i EXCEPT !.ready_counts = rc, !.sent_ready = @ \/ amp]
        del == Cardinality(rc[pk]) >= N - F /\ ~i1.delivered
    IN  [ inst |-> IF del
                   THEN [i1 EXCEPT !.delivered = TRUE,
                                   !.delivered_value = payload,
                                   !.deliveries = @ + 1]
                   ELSE i1,
          out  |-> IF amp THEN {Out("RBC_READY", payload)} ELSE {} ]

\* RBCProtocol._on_ready: the instance after the call and the broadcasts made.
OnReady(i, ready_from, payload) ==
    LET pk  == PayloadKey(payload)
        rc  == AddTo(i.ready_counts, pk, ready_from)
        amp == Cardinality(rc[pk]) >= F + 1 /\ ~i.sent_ready
        i1  == [i EXCEPT !.ready_counts = rc, !.sent_ready = @ \/ amp]
        del == Cardinality(rc[pk]) >= N - F /\ ~i1.delivered
    IN  [ inst |-> IF del
                   THEN [i1 EXCEPT !.delivered = TRUE,
                                   !.delivered_value = payload,
                                   !.deliveries = @ + 1]
                   ELSE i1,
          out  |-> IF amp THEN {Out("RBC_READY", payload)} ELSE {} ]

\* RBCProtocol._on_echo.
OnEcho(i, self, echoer, payload) ==
    LET pk == PayloadKey(payload)
        ec == AddTo(i.echo_counts, pk, echoer)
        i1 == [i EXCEPT !.echo_counts = ec]
    IN  IF Cardinality(ec[pk]) >= N - F /\ ~i.sent_ready
        THEN LET r == OnReady([i1 EXCEPT !.sent_ready = TRUE], self, payload)
             IN  [ inst |-> r.inst,
                   out  |-> {Out("RBC_READY", payload)} \cup r.out ]
        ELSE [ inst |-> i1, out |-> {} ]

\* RBCProtocol._on_init.
OnInit(i, self, payload) ==
    IF i.sent_echo
    THEN [ inst |-> i, out |-> {} ]
    ELSE LET r == OnEcho([i EXCEPT !.sent_echo = TRUE], self, self, payload)
         IN  [ inst |-> r.inst,
               out  |-> {Out("RBC_ECHO", payload)} \cup r.out ]

\* An instance created anew.
GetInstanceFresh(p) == NewInstance

\* RBCProtocol._get_instance(sender, tag) at party p: the instance is created
\* on first use and kept.
GetInstance(p) == inst[p]

\* The effect of a handler result r at party p, having consumed the messages
\* of used.
Apply(p, r, used) ==
    /\ inst' = [inst EXCEPT ![p] = r.inst]
    /\ \E S \in BroadcastAll(p, r.out) : net' = (net \ used) \cup S

\* RBCProtocol.broadcast(tag, payload), called by the sender.
Broadcast(payload) ==
    /\ Len(bcast) < MaxBroadcasts
    /\ bcast' = Append(bcast, payload)
    /\ LET p == rbc_sender
           r == OnInit(GetInstance(p), p, payload)
       IN  /\ inst' = [inst EXCEPT ![p] = r.inst]
           /\ \E S \in BroadcastAll(p, {Out("RBC_INIT", payload)} \cup r.out) :
                 net' = net \cup S
    /\ UNCHANGED <<policy, rbc_sender, ba_vars, acs, css_vars, mpc_vars, app_vars>>

\* RBCProtocol.handle_init.
HandleInit(m) ==
    /\ m.msg_type = "RBC_INIT"
    /\ Apply(m.to, OnInit(GetInstance(m.to), m.to, m.payload), {m})
    /\ UNCHANGED <<policy, rbc_sender, bcast, ba_vars, acs, css_vars, mpc_vars, app_vars>>

\* RBCProtocol.handle_echo.
HandleEcho(m) ==
    /\ m.msg_type = "RBC_ECHO"
    /\ Apply(m.to, OnEcho(GetInstance(m.to), m.to, m.sender, m.payload), {m})
    /\ UNCHANGED <<policy, rbc_sender, bcast, ba_vars, acs, css_vars, mpc_vars, app_vars>>

\* RBCProtocol.handle_ready.
HandleReady(m) ==
    /\ m.msg_type = "RBC_READY"
    /\ Apply(m.to, OnReady(GetInstance(m.to), m.sender, m.payload), {m})
    /\ UNCHANGED <<policy, rbc_sender, bcast, ba_vars, acs, css_vars, mpc_vars, app_vars>>

(***************************************************************************)
(* Randomness beacon (src/sim/beacon.py).                                  *)
(***************************************************************************)
\* A threshold of F requests.
BeaconThresholdOne == F

\* RandomnessBeacon(threshold=f + 1).
BeaconThreshold == F + 1

\* The integers FieldElement.random().to_int() is drawn from, cut down to
\* two of each parity.
BeaconValues == 0..3

NewBeacon == [requests |-> <<>>, values |-> <<>>]

\* f with f[k] = v, k added to the domain when new.
Extend(f, k, v) == [x \in DOMAIN f \cup {k} |-> IF x = k THEN v ELSE f[x]]

\* RandomnessBeacon.request up to the wait on the event: the beacon after
\* party_id has asked for beacon_index, rho being the value drawn if this
\* request releases the index.
BeaconRequest(b, beacon_index, party_id, rho) ==
    LET old  == IF beacon_index \in DOMAIN b.requests
                THEN b.requests[beacon_index] ELSE {}
        reqs == Extend(b.requests, beacon_index, old \cup {party_id})
    IN  [ requests |-> reqs,
          values   |-> IF /\ Cardinality(reqs[beacon_index]) >= BeaconThreshold
                          /\ beacon_index \notin DOMAIN b.values
                       THEN Extend(b.values, beacon_index, rho)
                       ELSE b.values ]

(***************************************************************************)
(* Binary agreement (src/protocols/ba.py).                                 *)
(***************************************************************************)
\* The ba_index of the instance followed.
BAIndex == 0

\* BAInstance.__init__.  The events are the value of their flag.
NewBAInstance ==
    [ estimate |-> -1, round |-> 1, votes |-> <<>>,
      decided |-> FALSE, decided_value |-> -1, decided_event |-> FALSE,
      vote_events |-> <<>> ]

\* BAInstance._ensure_round.
EnsureRound(i, r) ==
    [i EXCEPT !.votes = IF r \in DOMAIN @ THEN @
                        ELSE Extend(@, r, [v \in {0, 1} |-> {}]),
              !.vote_events = IF r \in DOMAIN @ THEN @ ELSE Extend(@, r, FALSE)]

\* Thresholds below the supermajority.
DecideThresholdLow == F + 1

DecideThresholdOne == F

\* A simple majority as large as the supermajority.
AdoptThresholdHigh == N - F

\* The supermajority and the simple majority of the decision logic of run.
DecideThreshold == N - F

AdoptThreshold == F + 1

\* beacon_idx of round r.
BeaconIdx(r) == BAIndex * 1000 + r

\* BAProtocol.run from `while not inst.decided` to the await of the broadcast
\* of the vote, or to the return.  A result names the instance, the messages
\* broadcast, the beacon, and where run is left.
LoopTop(i, b) ==
    IF i.decided
    THEN [inst |-> i, out |-> {}, beacon |-> b, pc |-> "done"]
    ELSE [inst |-> EnsureRound(i, i.round),
          out |-> {Out("BA_VOTE", [ba_index |-> BAIndex, round |-> i.round,
                                   value |-> i.estimate])},
          beacon |-> b, pc |-> "vote"]

\* run after beacon.request has returned the value of the round's index.
AfterCoin(i, b) ==
    LoopTop([i EXCEPT !.estimate = b.values[BeaconIdx(i.round)] % 2,
                      !.round = @ + 1], b)

\* run from the wait loop `while not inst.decided` for the votes of the round,
\* through the decision logic, to its next suspension or its return.
Tally(i, self, b, rho) ==
    LET r       == i.round
        count_0 == Cardinality(i.votes[r][0])
        count_1 == Cardinality(i.votes[r][1])
        decide(v) == [inst |-> [i EXCEPT !.decided = TRUE, !.decided_value = v,
                                         !.decided_event = TRUE],
                      out |-> {Out("BA_DECIDE", [ba_index |-> BAIndex, value |-> v])},
                      beacon |-> b, pc |-> "done"]
    IN  IF i.decided
        THEN [inst |-> i, out |-> {}, beacon |-> b, pc |-> "done"]
        ELSE IF count_0 + count_1 < N - F
        THEN [inst |-> [i EXCEPT !.vote_events[r] = FALSE], out |-> {},
              beacon |-> b, pc |-> "wait"]
        ELSE IF count_1 >= DecideThreshold THEN decide(1)
        ELSE IF count_0 >= DecideThreshold THEN decide(0)
        ELSE IF count_1 >= AdoptThreshold
        THEN LoopTop([i EXCEPT !.estimate = 1, !.round = @ + 1], b)
        ELSE IF count_0 >= AdoptThreshold
        THEN LoopTop([i EXCEPT !.estimate = 0, !.round = @ + 1], b)
        ELSE LET b1 == BeaconRequest(b, BeaconIdx(r), self, rho)
             IN  IF BeaconIdx(r) \in DOMAIN b1.values
                 THEN AfterCoin(i, b1)
                 ELSE [inst |-> i, out |-> {}, beacon |-> b1, pc |-> "coin"]

\* BAProtocol._get_instance(ba_index) at party p.
GetBAInstance(p) == ba[p]

\* The effect of a step r of run at party p.  Rounds after MaxRound are not
\* followed.
BAApply(p, r) ==
    /\ r.inst.round <= MaxRound
    /\ ba' = [ba EXCEPT ![p] = r.inst]
    /\ ba_pc' = [ba_pc EXCEPT ![p] = r.pc]
    /\ beacon' = r.beacon
    /\ \E S \in BroadcastAll(p, r.out) : net' = net \cup S

\* BAProtocol.run(ba_index, initial_estimate) is called at party p.
BARun(p, initial_estimate) ==
    /\ ba_pc[p] = "idle"
    /\ BAApply(p, LoopTop([GetBAInstance(p) EXCEPT !.estimate = initial_estimate],
                          beacon))
    /\ UNCHANGED <<policy, rbc_vars, ba_input, acs, css_vars, mpc_vars, app_vars>>

\* run resumes after the broadcast of its vote: it records its own vote and
\* looks at the votes of the round.
BAVoted(p) ==
    /\ ba_pc[p] = "vote"
    /\ LET i  == GetBAInstance(p)
           i1 == [i EXCEPT !.votes[i.round][i.estimate] = @ \cup {p},
                           !.vote_events[i.round] = TRUE]
       IN  \E rho \in BeaconValues : BAApply(p, Tally(i1, p, beacon, rho))
    /\ UNCHANGED <<policy, rbc_vars, ba_input, acs, css_vars, mpc_vars, app_vars>>

\* run resumes from a wait: on _vote_events[r] once it is set, or on the event
\* of the beacon index once the beacon has released it.
BAWake(p) ==
    /\ LET i == GetBAInstance(p)
       IN  IF ba_pc[p] = "wait"
           THEN /\ i.vote_events[i.round]
                /\ \E rho \in BeaconValues : BAApply(p, Tally(i, p, beacon, rho))
           ELSE /\ ba_pc[p] = "coin"
                /\ BeaconIdx(i.round) \in DOMAIN beacon.values
                /\ BAApply(p, AfterCoin(i, beacon))
    /\ UNCHANGED <<policy, rbc_vars, ba_input, acs, css_vars, mpc_vars, app_vars>>

\* BAProtocol.handle_vote.
BAHandleVote(m) ==
    /\ m.msg_type = "BA_VOTE"
    /\ LET i == EnsureRound(GetBAInstance(m.to), m.payload.round)
       IN  ba' = [ba EXCEPT ![m.to] =
                     [i EXCEPT !.votes[m.payload.round][m.payload.value] =
                                   @ \cup {m.sender},
                               !.vote_events[m.payload.round] = TRUE]]
    /\ net' = net \ {m}
    /\ UNCHANGED <<policy, rbc_vars, ba_pc, ba_input, beacon, acs, css_vars, mpc_vars, app_vars>>

\* BAProtocol.handle_decide.
BAHandleDecide(m) ==
    /\ m.msg_type = "BA_DECIDE"
    /\ LET i == GetBAInstance(m.to)
       IN  ba' = [ba EXCEPT ![m.to] =
                     IF ~i.decided
                     THEN [i EXCEPT !.decided = TRUE,
                                    !.decided_value = m.payload.value,
                                    !.decided_event = TRUE]
                     ELSE i]
    /\ net' = net \ {m}
    /\ UNCHANGED <<policy, rbc_vars, ba_pc, ba_input, beacon, acs, css_vars, mpc_vars, app_vars>>

\* The state of the BA instance before any party has called run; inputs are
\* the estimates the parties will call it with.
BAIdle(inputs) ==
    /\ ba = [p \in Parties |-> NewBAInstance]
    /\ ba_pc = [p \in Parties |-> "idle"]
    /\ ba_input \in inputs
    /\ beacon = NewBeacon

\* The parties never call run.
NoInputs == [p \in Parties |-> -1]

\* The state of the RBC instance before the sender has called broadcast.
RBCIdle ==
    /\ bcast = <<>>
    /\ inst = [p \in Parties |-> NewInstance]

(***************************************************************************)
(* The field F_p (src/field.py) and polynomials (src/core/polynomial.py).  *)
(***************************************************************************)
\* The primes the field is checked over, in place of 2^127 - 1.
Primes == <<5, 7, 11>>

\* Which of Primes is the modulus.
PrimeIdx == 1

\* PRIME.
PRIME == Primes[PrimeIdx]

\* The values of FieldElement.
Field == 0..(PRIME - 1)

\* FieldElement.__add__, __sub__, __mul__, __neg__.
FAdd(a, b) == (a + b) % PRIME
FSub(a, b) == (a - b) % PRIME
FMul(a, b) == (a * b) % PRIME
FNeg(a) == (0 - a) % PRIME

RECURSIVE FPow(_, _)
\* pow(value, exp, PRIME).
FPow(a, e) == IF e = 0 THEN 1 % PRIME ELSE FMul(a, FPow(a, e - 1))

\* FieldElement.inverse, for a nonzero a, and __truediv__.
FInverse(a) == FPow(a, PRIME - 2)
FDiv(a, b) == FMul(a, FInverse(b))

RECURSIVE Horner(_, _, _)
\* Polynomial.evaluate: Horner's rule over coeffs[k], ..., coeffs[1] from
\* the highest coefficient down.
Horner(coeffs, k, x) ==
    IF k = 0 THEN 0
    ELSE FAdd(FMul(Horner(coeffs, k - 1, x), x), coeffs[Len(coeffs) - k + 1])

\* Polynomial(coeffs).evaluate(x); coeffs[1] is the constant term.
Evaluate(coeffs, x) == Horner(coeffs, Len(coeffs), x % PRIME)

\* Polynomial.random(degree, constant): the polynomials it can return, the
\* other coefficients being FieldElement.random(), which is never zero.
RandomPolys(degree, constant) ==
    { <<constant>> \o t : t \in [1..degree -> 1..(PRIME - 1)] }

RECURSIVE ProdOver(_, _, _, _)
\* The product over j in 1..k, j # i, of term[j] in the field.
ProdOver(term, k, i, acc) ==
    IF k = 0 THEN acc
    ELSE ProdOver(term, k - 1, i, IF k = i THEN acc ELSE FMul(acc, term[k]))

\* The Lagrange basis coefficient at the point x of the i-th of the
\* x-coordinates xs: prod_{j # i} (x - xs[j]) / (xs[i] - xs[j]).
LagrangeAt(xs, i, x) ==
    FDiv(ProdOver([j \in 1..Len(xs) |-> FSub(x, xs[j])], Len(xs), i, 1),
         ProdOver([j \in 1..Len(xs) |-> FSub(xs[i], xs[j])], Len(xs), i, 1))

\* lagrange_coefficients_at_zero(x_values).
lagrange_coefficients_at_zero(xs) ==
    [i \in 1..Len(xs) |-> LagrangeAt(xs, i, 0)]

RECURSIVE SumProducts(_, _, _)
\* sum_i ys[i] * lambdas[i] over the first k indices.
SumProducts(lambdas, ys, k) ==
    IF k = 0 THEN 0
    ELSE FAdd(SumProducts(lambdas, ys, k - 1), FMul(ys[k], lambdas[k]))

\* Interpolation of the points (a sequence of <<x, y>>) evaluated at x.
InterpolateAt(points, x) ==
    SumProducts([i \in 1..Len(points) |->
                    LagrangeAt([j \in 1..Len(points) |-> points[j][1] % PRIME], i, x)],
                [i \in 1..Len(points) |-> points[i][2]],
                Len(points))

\* Polynomial.interpolate_at_zero(points).
interpolate_at_zero(points) == InterpolateAt(points, 0)

\* The first k members of a sequence (s[:k]).
Prefix(s, k) == SubSeq(s, 1, IF k < Len(s) THEN k ELSE Len(s))

RECURSIVE SortedSeq(_)
\* sorted(S) for a set S of integers.
SortedSeq(S) ==
    IF S = {} THEN <<>>
    ELSE LET x == CHOOSE a \in S : \A b \in S : a <= b
         IN  <<x>> \o SortedSeq(S \ {x})

(***************************************************************************)
(* Complete secret sharing (src/protocols/css.py), one session.            *)
(***************************************************************************)
\* The session id of the sharing.
SessionId == "test"

\* The state of CSSProtocol for the session after _ensure_session: no share,
\* PENDING, no VID, no echoes.  echoes holds the items of _echoes[sid] as
\* <<point, value>> in insertion order; finalizations counts the runs of the
\* finalizing branch of _try_finalize; task tells whether a coroutine of the
\* party is suspended in _send_echo's broadcast.
NewCSS ==
    [ has_share |-> FALSE, share |-> 0, status |-> "pending",
      has_vid |-> FALSE, vid |-> <<>>, echoes |-> <<>>,
      ready_sent |-> FALSE, finalized |-> FALSE, finalizations |-> 0,
      task |-> "none" ]

\* _echoes[sid][point] = value: a new key goes last, an old key keeps its place.
SetEcho(echoes, point, value) ==
    IF \E k \in 1..Len(echoes) : echoes[k][1] = point
    THEN [k \in 1..Len(echoes) |->
             IF echoes[k][1] = point THEN <<point, value>> ELSE echoes[k]]
    ELSE Append(echoes, <<point, value>>)

\* sorted((pt, sv.value) for pt, sv in _echoes[sid].items()).
EchoesSorted(echoes) ==
    LET pts == SortedSeq({ echoes[k][1] : k \in 1..Len(echoes) })
    IN  [i \in 1..Len(pts) |->
            echoes[CHOOSE k \in 1..Len(echoes) : echoes[k][1] = pts[i]]]

\* The VID of an echo list: the digest of "sid:echoes_sorted", two digests
\* being equal when the digested strings are.
Vid(echoes) == <<SessionId, EchoesSorted(echoes)>>

\* _derive_share through the first echo only.
DeriveShareOne(c, self) ==
    [c EXCEPT !.has_share = TRUE,
              !.share = InterpolateAt(Prefix(c.echoes, F), self)]

\* _derive_share: the share of party self by Lagrange from the first F+1
\* echoes.
DeriveShare(c, self) ==
    [c EXCEPT !.has_share = TRUE,
              !.share = InterpolateAt(Prefix(c.echoes, F + 1), self)]

\* A threshold of one echo.
FinalizeThresholdOne == F

\* The number of echoes that finalizes.
FinalizeThreshold == F + 1

\* _try_finalize without the test of the status.
TryFinalizeAgain(c, self) ==
    IF Len(c.echoes) < FinalizeThreshold THEN c
    ELSE LET d == [c EXCEPT !.status = "finalized",
                            !.has_vid = TRUE,
                            !.vid = Vid(c.echoes),
                            !.finalizations = @ + 1]
             e == IF ~d.has_share THEN DeriveShare(d, self) ELSE d
         IN  [e EXCEPT !.finalized = TRUE]

\* _try_finalize setting the VID whenever F+1 echoes are there.
TryFinalizeRevid(c, self) ==
    IF Len(c.echoes) < FinalizeThreshold THEN c
    ELSE LET d == [c EXCEPT !.status = "finalized",
                            !.has_vid = TRUE,
                            !.vid = Vid(c.echoes),
                            !.finalizations =
                                IF c.status = "pending" THEN @ + 1 ELSE @]
             e == IF ~d.has_share THEN DeriveShare(d, self) ELSE d
         IN  [e EXCEPT !.finalized = TRUE]

\* _try_finalize(session_id) at party self.
TryFinalize(c, self) ==
    IF c.status # "pending" THEN c
    ELSE IF Len(c.echoes) < FinalizeThreshold THEN c
    ELSE LET d == [c EXCEPT !.status = "finalized",
                            !.has_vid = TRUE,
                            !.vid = Vid(c.echoes),
                            !.finalizations = @ + 1]
             e == IF ~d.has_share THEN DeriveShare(d, self) ELSE d
         IN  [e EXCEPT !.finalized = TRUE]

\* get_share deriving a share from F echoes.
GetShareEager(c, self) ==
    IF c.has_share THEN [error |-> FALSE, value |-> c.share]
    ELSE IF Len(c.echoes) >= F
         THEN [error |-> FALSE, value |-> DeriveShare(c, self).share]
         ELSE [error |-> TRUE, value |-> 0]

\* get_share(session_id) at party self: error tells of the KeyError, value is
\* the share returned.
GetShare(c, self) ==
    IF c.has_share THEN [error |-> FALSE, value |-> c.share]
    ELSE IF Len(c.echoes) >= F + 1
         THEN [error |-> FALSE, value |-> DeriveShare(c, self).share]
         ELSE [error |-> TRUE, value |-> 0]

\* get_vid(session_id): none tells of the answer None.
GetVid(c) == [none |-> ~c.has_vid, value |-> c.vid]

\* Network.send(sender, receiver, msg): the sets of messages that can end up
\* on the channel.
Send(from, to, o) ==
    LET m == Msg(o.msg_type, from, to, o.payload)
    IN  { S \in SUBSET {m} :
            /\ (m \in S) => MayPass(from, to, o.msg_type)
            /\ (m \notin S) => MayDrop(from, to, o.msg_type) }

\* The CSS_ECHO message of _send_echo.
EchoMsg(self, share_val) ==
    Out("CSS_ECHO", [session_id |-> SessionId, point |-> self,
                     share_value |-> share_val])

\* share(secret, session_id) is called at the dealer: _ensure_session and the
\* polynomial, one of polys; the loop over the parties follows in
\* CSSShareStep.
CSSShareWith(polys) ==
    /\ css_deal.i = 0
    /\ \E poly \in polys :
          css_deal' = [css_deal EXCEPT !.i = 1, !.poly = poly]
    /\ UNCHANGED <<policy, net, rbc_vars, ba_vars, acs, css, mpc_vars, app_vars>>

\* share(secret, session_id), the polynomial being any Polynomial.random can
\* return.
CSSShare(secret) == CSSShareWith(RandomPolys(F, secret))

\* One turn of share's loop, for party i: the dealer keeps its own share and
\* enters _send_echo, where it is suspended in the broadcast of its echo; to
\* another party it sends CSS_SHARE.
CSSShareStep ==
    LET d == css_deal.dealer
        i == css_deal.i
        share_val == Evaluate(css_deal.poly, i)
    IN  /\ i \in 1..N
        /\ css[d].task = "none"
        /\ IF i = d
           THEN /\ css' = [css EXCEPT ![d].has_share = TRUE,
                                      ![d].share = share_val,
                                      ![d].task = "echo"]
                /\ \E S \in BroadcastAll(d, {EchoMsg(d, share_val)}) :
                      net' = net \cup S
                /\ UNCHANGED css_deal
           ELSE /\ \E S \in Send(d, i, Out("CSS_SHARE",
                                 [session_id |-> SessionId,
                                  share_value |-> share_val])) :
                      net' = net \cup S
                /\ css_deal' = [css_deal EXCEPT !.i = i + 1]
                /\ UNCHANGED css
        /\ UNCHANGED <<policy, rbc_vars, ba_vars, acs, mpc_vars, app_vars>>

\* handle_share up to the broadcast in _send_echo.  The dealer sends one
\* CSS_SHARE to each other party of the session, so no echo of the receiver
\* is under way when it arrives.
CSSHandleShare(m) ==
    /\ m.msg_type = "CSS_SHARE"
    /\ css[m.to].task = "none"
    /\ css' = [css EXCEPT ![m.to].has_share = TRUE,
                          ![m.to].share = m.payload.share_value % PRIME,
                          ![m.to].task = "echo"]
    /\ \E S \in BroadcastAll(m.to, {EchoMsg(m.to, m.payload.share_value % PRIME)}) :
          net' = (net \ {m}) \cup S
    /\ UNCHANGED <<policy, rbc_vars, ba_vars, acs, css_deal, mpc_vars, app_vars>>

\* _send_echo after the broadcast, at party p: the own echo is recorded and
\* _try_finalize runs; at the dealer share's loop goes on.
CSSEchoSent(p) ==
    /\ css[p].task = "echo"
    /\ css' = [css EXCEPT ![p] =
                  TryFinalize([css[p] EXCEPT
                                  !.echoes = SetEcho(@, p, css[p].share),
                                  !.task = "none"], p)]
    /\ css_deal' = IF p = css_deal.dealer
                   THEN [css_deal EXCEPT !.i = @ + 1] ELSE css_deal
    /\ UNCHANGED <<policy, net, rbc_vars, ba_vars, acs, mpc_vars, app_vars>>

\* handle_echo: the echo is recorded, _try_finalize runs, and CSS_READY is
\* broadcast once F+1 echoes are seen.
CSSHandleEcho(m) ==
    /\ m.msg_type = "CSS_ECHO"
    /\ LET p == m.to
           c == TryFinalize([css[p] EXCEPT
                    !.echoes = SetEcho(@, m.payload.point,
                                       m.payload.share_value % PRIME)], p)
           ready == ~c.ready_sent /\ Len(c.echoes) >= F + 1
       IN  /\ css' = [css EXCEPT ![p] = [c EXCEPT !.ready_sent = @ \/ ready]]
           /\ \E S \in BroadcastAll(p, IF ready
                                       THEN {Out("CSS_READY", [session_id |-> SessionId])}
                                       ELSE {}) :
                 net' = (net \ {m}) \cup S
    /\ UNCHANGED <<policy, rbc_vars, ba_vars, acs, css_deal, mpc_vars, app_vars>>

\* handle_ready: nothing but the message is consumed.
CSSHandleReady(m) ==
    /\ m.msg_type = "CSS_READY"
    /\ net' = net \ {m}
    /\ UNCHANGED <<policy, rbc_vars, ba_vars, acs, css_vars, mpc_vars, app_vars>>

\* No party has touched the session; share is to be called at dealer d.
CSSIdle(dealers) ==
    /\ css = [p \in Parties |-> NewCSS]
    /\ css_deal \in { [dealer |-> d, poly |-> <<>>, i |-> 0] : d \in dealers }

(***************************************************************************)
(* MPC arithmetic (src/protocols/mpc_arithmetic.py), one gate.             *)
(***************************************************************************)
\* The inputs of the gate, fixed for a run: the sharings fa and fb of the
\* factors and fv of the opened value (coefficient lists, constant first),
\* coeff[p], the coefficient party p draws for its resharing polynomial, and
\* T, the active set ACS has output.
NoGate == [fa |-> <<0, 0>>, fb |-> <<0, 0>>, fv |-> <<0, 0>>,
           coeff |-> [p \in Parties |-> 1], T |-> {}]

\* The state of MPCArithmetic before set_active_set and multiply: the fields
\* for the gate's session of _reshares, _reshare_events and
\* _reshare_enough_events, and where multiply is.  used_set and result are
\* multiply's locals.
NewMPC ==
    [ has_active_set |-> FALSE, active_set |-> <<>>,
      reshares |-> <<>>, reshare_event |-> FALSE, reshare_enough_event |-> FALSE,
      pc |-> "idle", j |-> 0, poly |-> <<>>, used_set |-> <<>>, result |-> 0 ]

\* The state of open_value for the session: the items of _reshares[open_key]
\* as <<pid, share>> in insertion order, _reshare_events[open_key], where
\* open_value is, and what it returned.
NewOpen == [reshares |-> <<>>, event |-> FALSE, pc |-> "idle", result |-> 0]

\* The set of members of a sequence.
Range(s) == { s[k] : k \in 1..Len(s) }

\* The number of reshares of the active set that releases the fallback.
ReshareEnough == N - F

\* _check_reshare_progress(session_id).
CheckReshareProgress(m) ==
    IF ~m.has_active_set THEN m
    ELSE LET received == DOMAIN m.reshares
             active_received == received \cap Range(m.active_set)
         IN  [m EXCEPT
                !.reshare_enough_event =
                    @ \/ Cardinality(active_received) >= ReshareEnough,
                !.reshare_event =
                    @ \/ \A pid \in Range(m.active_set) : pid \in received]

\* Step 4 of multiply: the recombination over used_set.
Recombine(m, used_set) ==
    LET lambdas == lagrange_coefficients_at_zero(
                       [k \in 1..Len(used_set) |-> used_set[k] % PRIME])
    IN  [m EXCEPT !.pc = "done", !.used_set = used_set,
                  !.result = SumProducts(lambdas,
                                 [k \in 1..Len(used_set) |-> m.reshares[used_set[k]]],
                                 Len(used_set))]

\* The set multiply uses after the timeout: the members of the active set
\* whose reshares have arrived.
UsedSetArrived(m) ==
    SortedSeq({ pid \in Range(m.active_set) : pid \in DOMAIN m.reshares })

\* The set multiply uses when the wait ended before the timeout: the whole
\* active set.
UsedSetAll(m) == m.active_set

\* set_active_set(active_set) at party p, with the output of ACS.
MPCSetActiveSet(p) ==
    /\ mpc[p].pc = "idle"
    /\ ~mpc[p].has_active_set
    /\ mpc' = [mpc EXCEPT ![p].has_active_set = TRUE,
                          ![p].active_set = SortedSeq(mpc_in.T)]
    /\ UNCHANGED <<policy, net, rbc_vars, ba_vars, acs, css_vars, mpc_in, opn, app_vars>>

\* multiply(share_a, share_b, session_id) is called at party p with its
\* shares of the factors: steps 1 and 2 up to the loop over the parties.
MPCMultiply(p) ==
    /\ mpc[p].pc = "idle"
    /\ mpc[p].has_active_set
    /\ LET h_i == FMul(Evaluate(mpc_in.fa, p), Evaluate(mpc_in.fb, p))
       IN  IF p \in Range(mpc[p].active_set)
           THEN \E poly \in RandomPolys(F, h_i) :
                   /\ poly[2] = mpc_in.coeff[p]
                   /\ mpc' = [mpc EXCEPT ![p].pc = "reshare", ![p].j = 1,
                                         ![p].poly = poly]
           ELSE mpc' = [mpc EXCEPT ![p].pc = "wait"]
    /\ UNCHANGED <<policy, net, rbc_vars, ba_vars, acs, css_vars, mpc_in, opn, app_vars>>

\* One turn of the reshare loop at party p, for party j: the own reshare is
\* recorded, another party's is sent as MUL_RESHARE.
MPCReshareStep(p) ==
    /\ mpc[p].pc = "reshare"
    /\ LET j == mpc[p].j
           share_val == Evaluate(mpc[p].poly, j)
           next == [mpc[p] EXCEPT !.j = j + 1,
                                  !.pc = IF j = N THEN "wait" ELSE "reshare"]
       IN  IF j = p
           THEN /\ mpc' = [mpc EXCEPT ![p] =
                              CheckReshareProgress(
                                  [next EXCEPT !.reshares = Extend(@, p, share_val)])]
                /\ UNCHANGED net
           ELSE /\ mpc' = [mpc EXCEPT ![p] = next]
                /\ \E S \in Send(p, j, Out("MUL_RESHARE",
                                 [session_id |-> SessionId,
                                  share_value |-> share_val])) :
                      net' = net \cup S
    /\ UNCHANGED <<policy, rbc_vars, ba_vars, acs, css_vars, mpc_in, opn, app_vars>>

\* handle_reshare.
MPCHandleReshare(m) ==
    /\ m.msg_type = "MUL_RESHARE"
    /\ mpc' = [mpc EXCEPT ![m.to] =
                  CheckReshareProgress(
                      [mpc[m.to] EXCEPT
                          !.reshares = Extend(@, m.sender,
                                              m.payload.share_value % PRIME)])]
    /\ net' = net \ {m}
    /\ UNCHANGED <<policy, rbc_vars, ba_vars, acs, css_vars, mpc_in, opn, app_vars>>

\* Step 3 of multiply at party p, the wait on _reshare_events returns within
\* the timeout: the full active set is used.
MPCAllArrived(p) ==
    /\ mpc[p].pc = "wait"
    /\ mpc[p].reshare_event
    /\ mpc' = [mpc EXCEPT ![p] = Recombine(mpc[p], UsedSetAll(mpc[p]))]
    /\ UNCHANGED <<policy, net, rbc_vars, ba_vars, acs, css_vars, mpc_in, opn, app_vars>>

\* Step 3 of multiply at party p, RESHARE_TIMEOUT passes with the event not
\* set: multiply goes on to wait on _reshare_enough_events.
MPCTimeout(p) ==
    /\ mpc[p].pc = "wait"
    /\ ~mpc[p].reshare_event
    /\ mpc' = [mpc EXCEPT ![p].pc = "wait_enough"]
    /\ UNCHANGED <<policy, net, rbc_vars, ba_vars, acs, css_vars, mpc_in, opn, app_vars>>

\* The fallback of multiply at party p: N-F reshares are there, the members
\* of the active set that have arrived are used.
MPCEnough(p) ==
    /\ mpc[p].pc = "wait_enough"
    /\ mpc[p].reshare_enough_event
    /\ mpc' = [mpc EXCEPT ![p] = Recombine(mpc[p], UsedSetArrived(mpc[p]))]
    /\ UNCHANGED <<policy, net, rbc_vars, ba_vars, acs, css_vars, mpc_in, opn, app_vars>>

\* A threshold of F shares.
OpenThresholdOne == F

\* The number of shares open_value waits for and interpolates.
OpenThreshold == F + 1

\* _reshares[open_key][pid] = share: a new key goes last.
SetOpenShare(items, pid, share) == SetEcho(items, pid, share)

\* _check_open_complete(open_key).
CheckOpenComplete(o) ==
    [o EXCEPT !.event = @ \/ Len(o.reshares) >= OpenThreshold]

\* open_value(share, session_id) is called at party p with its share of the
\* value: up to the broadcast of MPC_OPEN.
MPCOpenValue(p) ==
    /\ opn[p].pc = "idle"
    /\ opn' = [opn EXCEPT ![p].pc = "bcast"]
    /\ \E S \in BroadcastAll(p, {Out("MPC_OPEN",
                 [session_id |-> SessionId,
                  share_value |-> Evaluate(mpc_in.fv, p)])}) :
          net' = net \cup S
    /\ UNCHANGED <<policy, rbc_vars, ba_vars, acs, css_vars, mpc, mpc_in, app_vars>>

\* open_value after the broadcast: the own share is recorded, and the wait on
\* the event begins.
MPCOpenSent(p) ==
    /\ opn[p].pc = "bcast"
    /\ opn' = [opn EXCEPT ![p] =
                  CheckOpenComplete(
                      [opn[p] EXCEPT
                          !.reshares = SetOpenShare(@, p, Evaluate(mpc_in.fv, p)),
                          !.pc = "wait"])]
    /\ UNCHANGED <<policy, net, rbc_vars, ba_vars, acs, css_vars, mpc, mpc_in, app_vars>>

\* handle_open.
MPCHandleOpen(m) ==
    /\ m.msg_type = "MPC_OPEN"
    /\ opn' = [opn EXCEPT ![m.to] =
                  CheckOpenComplete(
                      [opn[m.to] EXCEPT
                          !.reshares = SetOpenShare(@, m.sender,
                                                    m.payload.share_value % PRIME)])]
    /\ net' = net \ {m}
    /\ UNCHANGED <<policy, rbc_vars, ba_vars, acs, css_vars, mpc, mpc_in, app_vars>>

\* open_value resumes from the wait and returns the interpolation of the
\* first F+1 recorded shares.
MPCOpenReturn(p) ==
    /\ opn[p].pc = "wait"
    /\ opn[p].event
    /\ opn' = [opn EXCEPT ![p].pc = "done",
                          ![p].result =
                              interpolate_at_zero(Prefix(opn[p].reshares, OpenThreshold))]
    /\ UNCHANGED <<policy, net, rbc_vars, ba_vars, acs, css_vars, mpc, mpc_in, app_vars>>

\* No party has set its active set, called multiply or called open_value;
\* the inputs of the gate are among gates.
MPCIdleWith(gates) ==
    /\ mpc = [p \in Parties |-> NewMPC]
    /\ opn = [p \in Parties |-> NewOpen]
    /\ mpc_in \in gates

\* The same, with no gate to evaluate.
MPCIdle == MPCIdleWith({NoGate})

(***************************************************************************)
(* Output privacy (src/protocols/output_privacy.py), one session: the     *)
(* output of sharing mpc_in.fo is revealed to mpc_in.owner under the mask  *)
(* of sharing mpc_in.fm; the masked value, of sharing mpc_in.fv, is opened *)
(* by open_value.                                                          *)
(***************************************************************************)
\* The sum of two polynomials of the same length.
PolyAdd(f, g) == [k \in 1..Len(f) |-> FAdd(f[k], g[k])]

\* The state of reveal_to_owner at a party: the items of
\* _mask_shares[mask_key] as <<point, share>> in insertion order, where the
\* call is, and what it returned.
NewReveal == [mask_shares |-> <<>>, pc |-> "idle", result |-> 0]

\* A threshold of F mask shares.
RevealThresholdOne == F

\* The number of mask shares the owner waits for and interpolates.
RevealThreshold == F + 1

\* reveal_to_owner broadcasting the mask share instead of sending it to the
\* owner.
RevealMaskBroadcast(p) ==
    /\ opn[p].pc = "done"
    /\ reveal[p].pc = "idle"
    /\ LET mask_share == Evaluate(mpc_in.fm, p)
       IN  IF p = mpc_in.owner
           THEN /\ reveal' = [reveal EXCEPT
                                 ![p].mask_shares = SetEcho(@, p, mask_share),
                                 ![p].pc = "wait"]
                /\ UNCHANGED net
           ELSE /\ reveal' = [reveal EXCEPT ![p].pc = "send"]
                /\ \E S \in BroadcastAll(p,
                                 {Out("MASK_SHARE",
                                      [session_id |-> SessionId, point |-> p,
                                       share_value |-> mask_share])}) :
                      net' = net \cup S
    /\ UNCHANGED <<policy, rbc_vars, ba_vars, acs, css_vars, mpc_vars,
                   css_got, beacon_call, circ, party, chan>>

\* reveal_to_owner at party p once open_value has returned y: the owner
\* records its own mask share and begins to wait; another party sends its
\* mask share to the owner and is suspended in the send.
RevealMask(p) ==
    /\ opn[p].pc = "done"
    /\ reveal[p].pc = "idle"
    /\ LET mask_share == Evaluate(mpc_in.fm, p)
       IN  IF p = mpc_in.owner
           THEN /\ reveal' = [reveal EXCEPT
                                 ![p].mask_shares = SetEcho(@, p, mask_share),
                                 ![p].pc = "wait"]
                /\ UNCHANGED net
           ELSE /\ reveal' = [reveal EXCEPT ![p].pc = "send"]
                /\ \E S \in Send(p, mpc_in.owner,
                                 Out("MASK_SHARE",
                                     [session_id |-> SessionId, point |-> p,
                                      share_value |-> mask_share])) :
                      net' = net \cup S
    /\ UNCHANGED <<policy, rbc_vars, ba_vars, acs, css_vars, mpc_vars,
                   css_got, beacon_call, circ, party, chan>>

\* reveal_to_owner at a party other than the owner, after the send: 0 is
\* returned.
RevealSent(p) ==
    /\ reveal[p].pc = "send"
    /\ reveal' = [reveal EXCEPT ![p].pc = "done", ![p].result = 0]
    /\ UNCHANGED <<policy, net, rbc_vars, ba_vars, acs, css_vars, mpc_vars,
                   css_got, beacon_call, circ, party, chan>>

\* handle_mask_share.
HandleMaskShare(m) ==
    /\ m.msg_type = "MASK_SHARE"
    /\ reveal' = [reveal EXCEPT
                     ![m.to].mask_shares =
                         SetEcho(@, m.payload.point, m.payload.share_value % PRIME)]
    /\ net' = net \ {m}
    /\ UNCHANGED <<policy, rbc_vars, ba_vars, acs, css_vars, mpc_vars,
                   css_got, beacon_call, circ, party, chan>>

\* reveal_to_owner at the owner leaves its loop: the mask is interpolated
\* from the first F+1 mask shares recorded, and y - mask is returned.
RevealReturn(p) ==
    /\ reveal[p].pc = "wait"
    /\ Len(reveal[p].mask_shares) >= RevealThreshold
    /\ LET mask == interpolate_at_zero(Prefix(reveal[p].mask_shares, RevealThreshold))
       IN  reveal' = [reveal EXCEPT ![p].pc = "done",
                                    ![p].result = FSub(opn[p].result, mask)]
    /\ UNCHANGED <<policy, net, rbc_vars, ba_vars, acs, css_vars, mpc_vars,
                   css_got, beacon_call, circ, party, chan>>

(***************************************************************************)
(* The layers above the arithmetic, before anything is called.             *)
(***************************************************************************)
\* No call of get_share has been made.
NoGetShare == [called |-> FALSE, error |-> FALSE, value |-> 0]

\* A party that has not called RandomnessBeacon.request.
NoBeaconCall == [pc |-> "idle", index |-> 0, value |-> -1]

\* No circuit is in evaluation.
NoCircuit == [pc |-> "idle"]

\* A party whose run() has not been called.
NoParty == [pc |-> "idle"]

\* No channel is followed message by message.
NoChannel == [now |-> 0]

\* No call of get_share, of the beacon or of reveal_to_owner has been made.
LayersIdle ==
    /\ css_got = [p \in Parties |-> NoGetShare]
    /\ beacon_call = [p \in Parties |-> NoBeaconCall]
    /\ reveal = [p \in Parties |-> NewReveal]
    /\ chan = NoChannel

\* No Party.run has been called.
PartyIdle == party = [p \in Parties |-> NoParty]

AppIdle ==
    /\ LayersIdle
    /\ circ = NoCircuit
    /\ PartyIdle

(***************************************************************************)
(* Agreement on a common set (src/protocols/acs.py).  ACSProtocol.run sees  *)
(* the RBC instance of a proposal and a BA instance through wait_deliver    *)
(* and BAProtocol.run only; they stand here by what these calls can return. *)
(***************************************************************************)
\* The locals of ACSProtocol.run before it is called.  ba_tasks[j] is the
\* estimate of the task run_ba_for(j, estimate) once created; result is the
\* returned set.  rbc_delivered holds the senders pid whose RBC instance
\* (pid, "acs_propose_pid") has delivered at this party (inst.delivered).
NewACS ==
    [ pc |-> "idle", delivered |-> {}, rbc_delivered |-> {},
      ba_started |-> {}, ba_tasks |-> <<>>, ba_results |-> <<>>,
      ba_decided_1_count |-> 0, ba_decided_1_enough |-> FALSE,
      all_ba_done |-> FALSE, result |-> {} ]

\* A threshold below N-F.
EnoughThresholdLow == F + 1

\* The number of BA instances decided 1 that releases ba_decided_1_enough.
EnoughThreshold == N - F

\* on_ba_result(j, value).
OnBAResult(a, j, value) ==
    LET count  == IF value = 1 THEN a.ba_decided_1_count + 1
                  ELSE a.ba_decided_1_count
        res    == Extend(a.ba_results, j, value)
    IN  [a EXCEPT !.ba_results = res,
                  !.ba_decided_1_count = count,
                  !.ba_decided_1_enough =
                      @ \/ (value = 1 /\ count >= EnoughThreshold),
                  !.all_ba_done = @ \/ Cardinality(DOMAIN res) = N]

\* ba_started.add(j) and create_task(run_ba_for(j, estimate)).
StartBA(a, j, estimate) ==
    [a EXCEPT !.ba_started = @ \cup {j},
              !.ba_tasks = Extend(@, j, estimate)]

\* Step 4 without the test on ba_started: input 0 to every index.
StartAllAgain(a, js, estimate) ==
    [a EXCEPT !.ba_started = @ \cup js,
              !.ba_tasks = [j \in js |-> estimate]]

RECURSIVE StartAll(_, _, _)
\* The loop of step 4 over the indices of js: input 0 to those not started.
StartAll(a, js, estimate) ==
    IF js = {} THEN a
    ELSE LET j == CHOOSE x \in js : \A y \in js : x <= y
         IN  StartAll(IF j \notin a.ba_started THEN StartBA(a, j, estimate) ELSE a,
                      js \ {j}, estimate)

\* The proposals delivered.
ACSResultDelivered(a) == a.delivered

\* The set returned in step 6.
ACSResult(a) == { j \in DOMAIN a.ba_results : a.ba_results[j] = 1 }

\* run from the wait on all_ba_done to the return.
ACSFinish(a) ==
    IF a.all_ba_done
    THEN [a EXCEPT !.pc = "done", !.result = ACSResult(a)]
    ELSE [a EXCEPT !.pc = "all_wait"]

\* ACSProtocol.run(accepted_dealers) is called at party p: steps 1 to 3, up to
\* the wait on ba_decided_1_enough.
ACSRun(p, accepted_dealers) ==
    /\ acs[p].pc = "idle"
    /\ LET a == [acs[p] EXCEPT !.pc = "enough_wait", !.delivered = {p}]
       IN  acs' = [acs EXCEPT ![p] = IF p \in accepted_dealers
                                     THEN StartBA(a, p, 1) ELSE a]
    /\ UNCHANGED <<policy, net, rbc_vars, ba_vars, css_vars, mpc_vars, app_vars>>

\* rbc.wait_deliver(pid, "acs_propose_pid") can have returned at party p: pid
\* has broadcast its proposal, a message of pid can reach some party, and
\* READYs of N-F-1 other parties can reach p.
RBCMayDeliver(pid, p) ==
    /\ acs[pid].pc # "idle"
    /\ \E q \in Parties \ {pid} : MayPass(pid, q, "RBC_INIT")
    /\ Cardinality({ q \in Parties \ {p} : MayPass(q, p, "RBC_READY") }) >= N - F - 1

\* watch_rbc(pid) at party p, after wait_deliver has returned.
ACSWatchRBC(p, pid) ==
    /\ acs[p].pc # "idle"
    /\ pid # p
    /\ pid \notin acs[p].delivered
    /\ RBCMayDeliver(pid, p)
    /\ LET a == [acs[p] EXCEPT !.delivered = @ \cup {pid},
                                !.rbc_delivered = @ \cup {pid}]
       IN  acs' = [acs EXCEPT ![p] = IF pid \notin a.ba_started
                                     THEN StartBA(a, pid, 1) ELSE a]
    /\ UNCHANGED <<policy, net, rbc_vars, ba_vars, css_vars, mpc_vars, app_vars>>

\* The RBC instance of the proposal of pid delivers at party p (_on_ready sets
\* inst.delivered) while no task of run at p has resumed on it: pid = p, whose
\* delivery nothing in run waits for, or watch_rbc(pid) still to resume.
ACSRBCDelivered(p, pid) ==
    /\ pid \notin acs[p].rbc_delivered
    /\ RBCMayDeliver(pid, p)
    /\ acs' = [acs EXCEPT ![p].rbc_delivered = @ \cup {pid}]
    /\ UNCHANGED <<policy, net, rbc_vars, ba_vars, css_vars, mpc_vars, app_vars>>

\* What BAProtocol.run can return: value is the estimate of F+1 voters (a
\* decision needs N-F votes of a round, an estimate is adopted from F+1),
\* there are N-F voters, and value is the value every earlier return gave.
\* estimates maps the voters to their initial estimates, returned is the set
\* of values returned so far.
BAOutcome(value, estimates, returned) ==
    /\ Cardinality({ q \in DOMAIN estimates : estimates[q] = value }) >= F + 1
    /\ Cardinality(DOMAIN estimates) >= N - F
    /\ \A w \in returned : w = value

\* The votes of party q count at p: they are p's own, or can reach some party.
Voter(q, p) ==
    q = p \/ \E r \in Parties \ {q} : MayPass(q, r, "BA_VOTE")

\* ba.run(ba_index=j, ...) can return value at party p, which hears of votes.
BAMayReturn(j, p, value) ==
    /\ \E q \in Parties \ {p} : MayPass(q, p, "BA_VOTE")
    /\ BAOutcome(value,
                 [q \in { q \in Parties : j \in DOMAIN acs[q].ba_tasks
                                           /\ Voter(q, p) } |->
                      acs[q].ba_tasks[j]],
                 { acs[q].ba_results[j] :
                      q \in { q \in Parties : j \in DOMAIN acs[q].ba_results } })

\* run_ba_for(j, estimate) at party p, after ba.run has returned value.
ACSBAResult(p, j, value) ==
    /\ j \in DOMAIN acs[p].ba_tasks
    /\ j \notin DOMAIN acs[p].ba_results
    /\ BAMayReturn(j, p, value)
    /\ acs' = [acs EXCEPT ![p] = OnBAResult(acs[p], j, value)]
    /\ UNCHANGED <<policy, net, rbc_vars, ba_vars, css_vars, mpc_vars, app_vars>>

\* run resumes from the wait on ba_decided_1_enough: step 4, then the wait on
\* all_ba_done.
ACSEnough(p) ==
    /\ acs[p].pc = "enough_wait"
    /\ acs[p].ba_decided_1_enough
    /\ acs' = [acs EXCEPT ![p] = ACSFinish(StartAll(acs[p], Parties, 0))]
    /\ UNCHANGED <<policy, net, rbc_vars, ba_vars, css_vars, mpc_vars, app_vars>>

\* run resumes from the wait on all_ba_done and returns.
ACSReturn(p) ==
    /\ acs[p].pc = "all_wait"
    /\ acs[p].all_ba_done
    /\ acs' = [acs EXCEPT ![p] = ACSFinish(acs[p])]
    /\ UNCHANGED <<policy, net, rbc_vars, ba_vars, css_vars, mpc_vars, app_vars>>

\* No party has called ACSProtocol.run.
ACSIdle == acs = [p \in Parties |-> NewACS]

\* The omission policies of the ACS runs: party 4 silent in both directions,
\* and party 4 deaf and omitting its messages to party 3.
ACSPolicies ==
    { {DropAll(4, "both")},
      {SelectiveOmission(4, {3}), DropAll(4, "receive")} }

\* The sets accepted_dealers the parties call run with.
AcceptedSets == { {1, 2, 3, 4}, {1, 2, 3} }

InitACS ==
    /\ policy \in ACSPolicies
    /\ net = {}
    /\ rbc_sender = 1
    /\ RBCIdle
    /\ BAIdle({NoInputs})
    /\ ACSIdle
    /\ CSSIdle({1})
    /\ MPCIdle
    /\ AppIdle

NextACS ==
    \/ \E p \in Parties, A \in AcceptedSets : ACSRun(p, A)
    \/ \E p, pid \in Parties : ACSWatchRBC(p, pid)
    \/ \E p, j \in Parties, v \in {0, 1} : ACSBAResult(p, j, v)
    \/ \E p \in Parties : ACSEnough(p)
    \/ \E p \in Parties : ACSReturn(p)

SpecACS == InitACS /\ [][NextACS]_vars

\* Specification of ACS with an omitting party that hears: party 4 omits its
\* messages to party 3 and takes part in everything else.  Every party calls
\* run with all dealers accepted; the delivery of the RBC instances is
\* followed apart from the tasks of run for the proposals of ProposalsFollowed.
\* Party 3 is slow: it calls run, and none of its tasks resumes; at party 4
\* the tasks watch_rbc resume and no BA instance has returned.
HearingPolicies == { {SelectiveOmission(4, {3})} }

ProposalsFollowed == {1}

HearingWatchers == {1, 2, 4}

HearingActive == {1, 2}

InitACSHearing ==
    /\ policy \in HearingPolicies
    /\ net = {}
    /\ rbc_sender = 1
    /\ RBCIdle
    /\ BAIdle({NoInputs})
    /\ ACSIdle
    /\ CSSIdle({1})
    /\ MPCIdle
    /\ AppIdle

NextACSHearing ==
    \/ \E p \in Parties : ACSRun(p, Parties)
    \/ \E p \in { q \in Parties : Correct(q) }, pid \in ProposalsFollowed : ACSRBCDelivered(p, pid)
    \/ \E p \in HearingWatchers, pid \in Parties : ACSWatchRBC(p, pid)
    \/ \E p \in HearingActive, j \in Parties, v \in {0, 1} : ACSBAResult(p, j, v)
    \/ \E p \in HearingActive : ACSEnough(p)
    \/ \E p \in HearingActive : ACSReturn(p)

SpecACSHearing == InitACSHearing /\ [][NextACSHearing]_vars

(***************************************************************************)
(* Specifications of BA.                                                   *)
(***************************************************************************)
\* The omission policies of the BA runs: party 4 is silent in both
\* directions, or hears nothing and omits its messages to parties 2 and 3.
BAPolicies ==
    { {DropAll(4, "both")},
      {SelectiveOmission(4, {2, 3}), DropAll(4, "receive")} }

\* The inputs of the BA runs: the correct parties unanimous for 0 and for 1
\* with party 4 against them, and split two ways.
BAInputs == { <<0, 0, 0, 1>>, <<1, 1, 1, 0>>, <<1, 1, 0, 1>>, <<1, 0, 0, 1>> }

InitBA ==
    /\ policy \in BAPolicies
    /\ net = {}
    /\ rbc_sender = 1
    /\ RBCIdle
    /\ BAIdle(BAInputs)
    /\ ACSIdle
    /\ CSSIdle({1})
    /\ MPCIdle
    /\ AppIdle

NextBA ==
    \/ \E p \in Parties : BARun(p, ba_input[p])
    \/ \E p \in Parties : BAVoted(p)
    \/ \E p \in Parties : BAWake(p)
    \/ \E m \in net : BAHandleVote(m)
    \/ \E m \in net : BAHandleDecide(m)

SpecBA == InitBA /\ [][NextBA]_vars

(***************************************************************************)
(* Specifications of RBC.                                                  *)
(***************************************************************************)
\* The omission policies of the RBC runs with sender s: a party silent in
\* both directions, and a sender that hears nothing and omits its messages to
\* the recipients of D, at least one.
RBCPolicies(s) ==
    { {DropAll(j, "both")} : j \in Parties }
    \cup { {SelectiveOmission(s, D), DropAll(s, "receive")} :
              D \in (SUBSET (Parties \ {s})) \ {{}} }

\* Party ids are only ever compared, so the instance of sender 1 stands for
\* the instance of any sender.
InitRBC ==
    /\ rbc_sender \in {1}
    /\ policy \in RBCPolicies(rbc_sender)
    /\ net = {}
    /\ RBCIdle
    /\ BAIdle({NoInputs})
    /\ ACSIdle
    /\ CSSIdle({1})
    /\ MPCIdle
    /\ AppIdle

NextRBC ==
    \/ \E v \in Payloads : Broadcast(v)
    \/ \E m \in net : HandleInit(m)
    \/ \E m \in net : HandleEcho(m)
    \/ \E m \in net : HandleReady(m)

SpecRBC == InitRBC /\ [][NextRBC]_vars

\* The runs in which the sender calls broadcast() once: a faulty sender as
\* above, and a correct sender with party 4 omitting every message to party 3
\* and all its READYs.
RBCOncePolicies(s) ==
    { {SelectiveOmission(s, D), DropAll(s, "receive")} : D \in SUBSET (Parties \ {s}) }
    \cup { {SelectiveOmission(4, {3}), DropTypes(4, {"RBC_READY"})} }

InitRBCOnce ==
    /\ rbc_sender \in {1}
    /\ policy \in RBCOncePolicies(rbc_sender)
    /\ net = {}
    /\ RBCIdle
    /\ BAIdle({NoInputs})
    /\ ACSIdle
    /\ CSSIdle({1})
    /\ MPCIdle
    /\ AppIdle

BroadcastOnce(v) == bcast = <<>> /\ Broadcast(v)

NextRBCOnce ==
    \/ \E v \in Payloads : BroadcastOnce(v)
    \/ \E m \in net : HandleInit(m)
    \/ \E m \in net : HandleEcho(m)
    \/ \E m \in net : HandleReady(m)

SpecRBCOnce == InitRBCOnce /\ [][NextRBCOnce]_vars

(***************************************************************************)
(* Specifications of CSS.                                                  *)
(***************************************************************************)
\* The omission policies of the CSS runs: party 4 silent in both directions,
\* and party 4 deaf and omitting its messages to parties 2 and 3.
CSSPolicies ==
    { {DropAll(4, "both")},
      {SelectiveOmission(4, {2, 3}), DropAll(4, "receive")} }

\* The dealers of the CSS runs: a correct party and the omitting party.
CSSDealers == {1, 4}

\* The secrets shared.
CSSSecrets == {2}

InitCSS ==
    /\ policy \in CSSPolicies
    /\ net = {}
    /\ rbc_sender = 1
    /\ RBCIdle
    /\ BAIdle({NoInputs})
    /\ ACSIdle
    /\ CSSIdle(CSSDealers)
    /\ MPCIdle
    /\ AppIdle

NextCSS ==
    \/ \E secret \in CSSSecrets : CSSShare(secret)
    \/ CSSShareStep
    \/ \E m \in net : CSSHandleShare(m)
    \/ \E p \in Parties : CSSEchoSent(p)
    \/ \E m \in net : CSSHandleEcho(m)
    \/ \E m \in net : CSSHandleReady(m)

SpecCSS == InitCSS /\ [][NextCSS]_vars

(***************************************************************************)
(* Specification of get_share: the CSS runs, with calls of get_share at    *)
(* any moment.                                                             *)
(***************************************************************************)
\* The party at which get_share is called.
GetShareCallers == {2}

\* The omission policies of the runs: the dealer, party 4, deaf and omitting
\* its messages to party 2, which then has the echoes only, or to party 3.
GetSharePolicies ==
    { {SelectiveOmission(4, D), DropAll(4, "receive")} : D \in {{2}, {3}} }

\* The dealer of the runs.
GetShareDealers == {4}

\* The polynomial the dealer draws: secret 2, coefficient 1.
GetSharePolys == { <<2, 1>> }

\* get_share(session_id) is called at party p: a share derived from the
\* echoes is kept in _shares, and css_got[p] holds the answer.
CSSGetShare(p) ==
    /\ LET r == GetShare(css[p], p)
       IN  /\ css_got' = [css_got EXCEPT
                             ![p] = [called |-> TRUE, error |-> r.error,
                                     value |-> r.value]]
           /\ css' = IF r.error \/ css[p].has_share
                     THEN css
                     ELSE [css EXCEPT ![p] = DeriveShare(css[p], p)]
    /\ UNCHANGED <<policy, net, rbc_vars, ba_vars, acs, css_deal, mpc_vars,
                   beacon_call, reveal, circ, party, chan>>

InitGetShare ==
    /\ policy \in GetSharePolicies
    /\ net = {}
    /\ rbc_sender = 1
    /\ RBCIdle
    /\ BAIdle({NoInputs})
    /\ ACSIdle
    /\ CSSIdle(GetShareDealers)
    /\ MPCIdle
    /\ AppIdle

NextGetShare ==
    \/ CSSShareWith(GetSharePolys)
    \/ CSSShareStep
    \/ \E m \in net : CSSHandleShare(m)
    \/ \E p \in Parties : CSSEchoSent(p)
    \/ \E m \in net : CSSHandleEcho(m)
    \/ \E m \in net : CSSHandleReady(m)
    \/ \E p \in GetShareCallers : CSSGetShare(p)

SpecGetShare == InitGetShare /\ [][NextGetShare]_vars

(***************************************************************************)
(* Specifications of MPC arithmetic.                                       *)
(***************************************************************************)
\* The omission policies of the multiplication runs: party 4 silent in both
\* directions, and party 4 deaf and omitting its messages to party 2.
MulPolicies ==
    { {DropAll(4, "both")},
      {SelectiveOmission(4, {2}), DropAll(4, "receive")} }

\* The active sets ACS can output.
ActiveSets == { {1, 2, 3}, {1, 2, 3, 4} }

\* The sharings of the two factors, and the coefficients the parties draw for
\* their resharing polynomials.
MulSharingsA == { <<2, 1>>, <<4, 0>> }
MulSharingsB == { <<3, 2>> }
MulCoeffs == { <<1, 2, 3, 1>> }

\* The gates of the multiplication runs.
MulGates ==
    { [fa |-> fa, fb |-> fb, fv |-> <<0, 0>>, coeff |-> c, T |-> t] :
        fa \in MulSharingsA, fb \in MulSharingsB, c \in MulCoeffs, t \in ActiveSets }

InitMul ==
    /\ policy \in MulPolicies
    /\ net = {}
    /\ rbc_sender = 1
    /\ RBCIdle
    /\ BAIdle({NoInputs})
    /\ ACSIdle
    /\ CSSIdle({1})
    /\ MPCIdleWith(MulGates)
    /\ AppIdle

NextMul ==
    \/ \E p \in Parties : MPCSetActiveSet(p)
    \/ \E p \in Parties : MPCMultiply(p)
    \/ \E p \in Parties : MPCReshareStep(p)
    \/ \E m \in net : MPCHandleReshare(m)
    \/ \E p \in Parties : MPCAllArrived(p)
    \/ \E p \in Parties : MPCTimeout(p)
    \/ \E p \in Parties : MPCEnough(p)

SpecMul == InitMul /\ [][NextMul]_vars

\* Specification of the multiplication with every party correct: the active
\* set leaves party 4 out, which hears the reshares of the gate and calls
\* set_active_set and multiply as the others do, in any order with the
\* arrival of the reshares.  A step that stays possible is taken: a handler
\* task runs, a timer expires, a task whose event is set resumes.
OrderGates ==
    { [fa |-> <<2, 1>>, fb |-> <<3, 2>>, fv |-> <<0, 0>>,
       coeff |-> <<1, 2, 3, 1>>, T |-> {1, 2, 3}] }

InitMulOrder ==
    /\ policy = {}
    /\ net = {}
    /\ rbc_sender = 1
    /\ RBCIdle
    /\ BAIdle({NoInputs})
    /\ ACSIdle
    /\ CSSIdle({1})
    /\ MPCIdleWith(OrderGates)
    /\ AppIdle

\* The parties followed through the handling of the reshares and the wait of
\* multiply; the others reshare and are slow from there on.
OrderFollowed == {1, 4}

NextMulOrder ==
    \/ \E p \in Parties : MPCSetActiveSet(p)
    \/ \E p \in Parties : MPCMultiply(p)
    \/ \E p \in Parties : MPCReshareStep(p)
    \/ \E m \in net : m.to \in OrderFollowed /\ MPCHandleReshare(m)
    \/ \E p \in OrderFollowed : MPCAllArrived(p)
    \/ \E p \in OrderFollowed : MPCTimeout(p)
    \/ \E p \in OrderFollowed : MPCEnough(p)

SpecMulOrder == InitMulOrder /\ [][NextMulOrder]_vars /\ WF_vars(NextMulOrder)

\* The omission policies of the opening runs: party 4 silent in both
\* directions, and party 4 deaf and omitting its messages to parties 2 and 3.
OpenPolicies ==
    { {DropAll(4, "both")},
      {SelectiveOmission(4, {2, 3}), DropAll(4, "receive")} }

\* The sharings opened, of degree at most F: two that are not constant and a
\* constant one.
OpenSharings == { <<2, 1>>, <<0, 4>>, <<3, 0>> }

\* The gates of the opening runs.
OpenGates ==
    { [fa |-> <<0, 0>>, fb |-> <<0, 0>>, fv |-> fv,
       coeff |-> [p \in Parties |-> 1], T |-> {}] : fv \in OpenSharings }

InitOpen ==
    /\ policy \in OpenPolicies
    /\ net = {}
    /\ rbc_sender = 1
    /\ RBCIdle
    /\ BAIdle({NoInputs})
    /\ ACSIdle
    /\ CSSIdle({1})
    /\ MPCIdleWith(OpenGates)
    /\ AppIdle

NextOpen ==
    \/ \E p \in Parties : MPCOpenValue(p)
    \/ \E p \in Parties : MPCOpenSent(p)
    \/ \E m \in net : MPCHandleOpen(m)
    \/ \E p \in Parties : MPCOpenReturn(p)

SpecOpen == InitOpen /\ [][NextOpen]_vars

(***************************************************************************)
(* Specification of the beacon (src/sim/beacon.py): the parties call       *)
(* request for the indices of BeaconIndices, one call at a time per party. *)
(***************************************************************************)
\* The beacon indices requested.
BeaconIndices == {1, 2}

\* request(beacon_index, party_id) up to the wait on the event, called by
\* party p: the request is recorded and, at the threshold, the value is drawn
\* if there is none and the event is set.
BeaconCall(p, beacon_index) ==
    /\ beacon_call[p].pc \in {"idle", "returned"}
    /\ \E rho \in BeaconValues :
          beacon' = BeaconRequest(beacon, beacon_index, p, rho)
    /\ beacon_call' = [beacon_call EXCEPT
                          ![p] = [pc |-> "waiting", index |-> beacon_index,
                                  value |-> -1]]
    /\ UNCHANGED <<policy, net, rbc_vars, ba, ba_pc, ba_input, acs, css_vars,
                   mpc_vars, css_got, reveal, circ, party, chan>>

\* request at party p after the wait: the event of the index is set and the
\* value of the index is returned.
BeaconReturn(p) ==
    /\ beacon_call[p].pc = "waiting"
    /\ beacon_call[p].index \in DOMAIN beacon.values
    /\ beacon_call' = [beacon_call EXCEPT
                          ![p].pc = "returned",
                          ![p].value = beacon.values[beacon_call[p].index]]
    /\ UNCHANGED <<policy, net, rbc_vars, ba_vars, acs, css_vars, mpc_vars,
                   css_got, reveal, circ, party, chan>>

InitBeacon ==
    /\ policy = {}
    /\ net = {}
    /\ rbc_sender = 1
    /\ RBCIdle
    /\ BAIdle({NoInputs})
    /\ ACSIdle
    /\ CSSIdle({1})
    /\ MPCIdle
    /\ AppIdle

NextBeacon ==
    \/ \E p \in Parties, k \in BeaconIndices : BeaconCall(p, k)
    \/ \E p \in Parties : BeaconReturn(p)

SpecBeacon == InitBeacon /\ [][NextBeacon]_vars

(***************************************************************************)
(* Specification of the output reveal.                                     *)
(***************************************************************************)
\* The omission policies of the reveal runs: party 4 silent in both
\* directions.
RevealPolicies == { {DropAll(4, "both")} }

\* The owner of the output.
RevealOwners == {1}

\* The sharing of the output and the sharing of the mask, of degree F.
RevealOutputs == { <<3, 1>> }
RevealMasks == { <<4, 2>> }

\* The sessions revealed.
RevealGates ==
    { [fa |-> <<0, 0>>, fb |-> <<0, 0>>, fv |-> PolyAdd(fo, fm),
       coeff |-> [p \in Parties |-> 1], T |-> {},
       fo |-> fo, fm |-> fm, owner |-> i] :
         fo \in RevealOutputs, fm \in RevealMasks, i \in RevealOwners }

InitReveal ==
    /\ policy \in RevealPolicies
    /\ net = {}
    /\ rbc_sender = 1
    /\ RBCIdle
    /\ BAIdle({NoInputs})
    /\ ACSIdle
    /\ CSSIdle({1})
    /\ MPCIdleWith(RevealGates)
    /\ AppIdle

NextReveal ==
    \/ \E p \in Parties : MPCOpenValue(p)
    \/ \E p \in Parties : MPCOpenSent(p)
    \/ \E m \in net : MPCHandleOpen(m)
    \/ \E p \in Parties : MPCOpenReturn(p)
    \/ \E p \in Parties : RevealMask(p)
    \/ \E p \in Parties : RevealSent(p)
    \/ \E m \in net : HandleMaskShare(m)
    \/ \E p \in Parties : RevealReturn(p)

SpecReveal == InitReveal /\ [][NextReveal]_vars

(***************************************************************************)
(* Circuits over shared values (src/circuits).  A wire is the share every  *)
(* party holds of it.  The parties evaluate the same gates in the same     *)
(* order; every gate has its own session id, so the shares after a gate    *)
(* depend only on the shares before it, on the resharing polynomials and   *)
(* on the set each party recombines over.  circ is the circuit in          *)
(* evaluation with the wires of all parties, advanced gate by gate.        *)
(***************************************************************************)
\* The shares of the sharing with polynomial poly.
SharesOf(poly) == [p \in Parties |-> Evaluate(poly, p)]

\* A public constant used as a share (FieldElement.zero(), FieldElement.one()).
PublicShare(c) == [p \in Parties |-> c % PRIME]

\* add, sub and scalar_mul of MPCArithmetic, at every party.
add(a, b) == [p \in Parties |-> FAdd(a[p], b[p])]

sub(a, b) == [p \in Parties |-> FSub(a[p], b[p])]

scalar_mul(scalar, a) == [p \in Parties |-> FMul(scalar % PRIME, a[p])]

\* The links on which a reshare can arrive after RESHARE_TIMEOUT.
LateLinks == {<<4, 2>>}

\* The coefficients the parties draw for their resharing polynomials.
ReshareCoeffs == {<<1, 2, 3, 1>>, <<2, 0, 1, 3>>}

\* The set party p recombines over when the reshares on the links of late
\* are late: the whole active set T when they all arrived before the
\* timeout or when fewer than N - F others have arrived, else the members
\* whose reshares have arrived.
UsedSetOf(p, T, late) ==
    LET arrived == T \ { l[1] : l \in { k \in late : k[2] = p } }
    IN  IF Cardinality(arrived) >= ReshareEnough THEN SortedSeq(arrived)
        ELSE SortedSeq(T)

\* What multiply(a[p], b[p], session_id) returns at every party p: party i of
\* T reshares a[i] * b[i] with the coefficient coeff[i], and p recombines
\* the reshares of its used set.
multiply(a, b, T, coeff, late) ==
    [p \in Parties |->
        LET used_set == UsedSetOf(p, T, late)
            m == [NewMPC EXCEPT !.reshares =
                     [i \in Range(used_set) |->
                         Evaluate(<<FMul(a[i], b[i]), coeff[i] % PRIME>>, p)]]
        IN  Recombine(m, used_set).result]

\* The number of parties that recombine after the timeout, over fewer
\* reshares than the active set has.
Fallbacks(T, late) ==
    Cardinality({ p \in Parties : UsedSetOf(p, T, late) # SortedSeq(T) })

\* The most recombinations after the timeout in the evaluation of a circuit.
MaxLate == 1

\* The sets of links that can be late in the next multiplication of circuit c.
LateChoices(c) ==
    { late \in SUBSET LateLinks : c.late + Fallbacks(c.T, late) <= MaxLate }

\* The value a sharing reconstructs to from the shares of the parties of S.
ReconstructFrom(S, shares) ==
    LET pids == SortedSeq(S)
    IN  interpolate_at_zero([k \in 1..Len(pids) |-> <<pids[k], shares[pids[k]]>>])

\* The sets of F + 1 parties of T.
Reconstructors(T) == { S \in SUBSET T : Cardinality(S) = F + 1 }

\* (v >> i) & 1.
BitOf(v, i) == (v \div (2 ^ i)) % 2

(***************************************************************************)
(* Bit decomposition (src/circuits/bit_decomposition.py).                  *)
(***************************************************************************)
\* The number of bits of the values decomposed and compared.
NumBits == 2

\* decompose(shared_value, num_bits, session_id) up to the call of
\* _bit_subtraction: the random bits are consumed, r_share is their weighted
\* sum, and y is the opened value of shared_value + r_share.  open_value
\* interpolates the first F + 1 shares that arrived, those of the parties S.
Decompose ==
    /\ circ.pc = "decompose"
    /\ LET random_bits == circ.random_bits
           RShare[i \in 0..NumBits] ==
               IF i = 0 THEN PublicShare(0)
               ELSE add(RShare[i - 1], scalar_mul(2 ^ (i - 1), random_bits[i]))
           masked == add(circ.shared_value, RShare[NumBits])
       IN  \E S \in Reconstructors(circ.T) :
              LET y_int == ReconstructFrom(S, masked)
              IN  circ' = [circ EXCEPT
                      !.pc = "xor", !.i = 1,
                      !.y_bits = [k \in 1..(NumBits + 1) |-> BitOf(y_int, k - 1)],
                      !.borrow = PublicShare(0),
                      !.result = <<>>]
    /\ UNCHANGED <<policy, net, rbc_vars, ba_vars, acs, css_vars, mpc_vars,
                   css_got, beacon_call, reveal, party, chan>>

\* t1 of _bit_subtraction in turn i: the XOR of the public bit y_i and r_i.
T1(c) ==
    IF c.y_bits[c.i] = 0 THEN c.random_bits[c.i]
    ELSE sub(PublicShare(1), c.random_bits[c.i])

\* _bit_subtraction, turn i up to the return of the first multiplication:
\* x_i is appended to the result.
BitSubtractionXor ==
    /\ circ.pc = "xor"
    /\ \E coeff \in circ.coeffs, late \in LateChoices(circ) :
          LET t1 == T1(circ)
              t1_times_borrow == multiply(t1, circ.borrow, circ.T, coeff, late)
              x_i == sub(add(t1, circ.borrow), scalar_mul(2, t1_times_borrow))
          IN  circ' = [circ EXCEPT !.pc = "borrow",
                                   !.result = Append(@, x_i),
                                   !.late = @ + Fallbacks(circ.T, late)]
    /\ UNCHANGED <<policy, net, rbc_vars, ba_vars, acs, css_vars, mpc_vars,
                   css_got, beacon_call, reveal, party, chan>>

\* _bit_subtraction, turn i from the second multiplication on: the borrow of
\* the next turn; after the last turn decompose returns the first num_bits
\* bits of the result.
BitSubtractionBorrow ==
    /\ circ.pc = "borrow"
    /\ \E coeff \in circ.coeffs, late \in LateChoices(circ) :
          LET r_i == circ.random_bits[circ.i]
              r_times_borrow == multiply(r_i, circ.borrow, circ.T, coeff, late)
              not_y == 1 - circ.y_bits[circ.i]
              xor_rb == sub(add(r_i, circ.borrow), scalar_mul(2, r_times_borrow))
              borrow == add(r_times_borrow, scalar_mul(not_y, xor_rb))
          IN  circ' = [circ EXCEPT
                          !.pc = IF circ.i = Len(circ.random_bits)
                                 THEN "done" ELSE "xor",
                          !.i = @ + 1,
                          !.borrow = borrow,
                          !.result = IF circ.i = Len(circ.random_bits)
                                     THEN Prefix(@, NumBits) ELSE @,
                          !.late = @ + Fallbacks(circ.T, late)]
    /\ UNCHANGED <<policy, net, rbc_vars, ba_vars, acs, css_vars, mpc_vars,
                   css_got, beacon_call, reveal, party, chan>>

(***************************************************************************)
(* Specification of the bit decomposition: one value is decomposed by the  *)
(* parties, with the active set of three or of all four parties.           *)
(***************************************************************************)
\* The active sets of the circuit runs.
CircuitActiveSets == {{1, 2, 3}, {1, 2, 3, 4}}

\* The coefficients of the sharings given to the circuits.
InputCoeffs == {1, 2}

\* The values decomposed with the values of the random bits: those whose sum
\* the field holds without wraparound.
DecomposeInputs ==
    { xr \in (0..(2 ^ NumBits - 1)) \X (0..(2 ^ NumBits - 1)) :
         xr[1] + xr[2] < PRIME }

\* The sharings of the bits of v, least significant first, as
\* preprocess_random_bit_sharings deals them.
BitSharings(v, c) ==
    [k \in 1..NumBits |-> SharesOf(<<BitOf(v, k - 1), c>>)]

InitDecompose ==
    /\ policy = {}
    /\ net = {}
    /\ rbc_sender = 1
    /\ RBCIdle
    /\ BAIdle({NoInputs})
    /\ ACSIdle
    /\ CSSIdle({1})
    /\ MPCIdle
    /\ LayersIdle
    /\ PartyIdle
    /\ \E T \in CircuitActiveSets, xr \in DecomposeInputs,
          cx \in InputCoeffs, cr \in InputCoeffs :
          circ = [pc |-> "decompose", T |-> T, x |-> xr[1], r |-> xr[2],
                  shared_value |-> SharesOf(<<xr[1], cx>>),
                  random_bits |-> BitSharings(xr[2], cr),
                  y_bits |-> <<>>, i |-> 0, borrow |-> PublicShare(0),
                  result |-> <<>>, late |-> 0, coeffs |-> ReshareCoeffs]

NextDecompose ==
    \/ Decompose
    \/ BitSubtractionXor
    \/ BitSubtractionBorrow

SpecDecompose == InitDecompose /\ [][NextDecompose]_vars

(***************************************************************************)
(* Comparison (src/circuits/comparison.py).                                *)
(***************************************************************************)
\* greater_than(bits_a, bits_b, session_id), turn i up to the return of the
\* multiplication of a_i and b_i: gt_i and eq_i.
GreaterThanAB ==
    /\ circ.pc = "ab"
    /\ \E coeff \in circ.coeffs, late \in LateChoices(circ) :
          LET a_i == circ.bits_a[circ.i]
              b_i == circ.bits_b[circ.i]
              ab == multiply(a_i, b_i, circ.T, coeff, late)
              gt_i == sub(a_i, ab)
              eq_i == add(sub(sub(PublicShare(1), a_i), b_i), scalar_mul(2, ab))
          IN  circ' = [circ EXCEPT !.pc = "pgt", !.gt_i = gt_i, !.eq_i = eq_i,
                                   !.late = @ + Fallbacks(circ.T, late)]
    /\ UNCHANGED <<policy, net, rbc_vars, ba_vars, acs, css_vars, mpc_vars,
                   css_got, beacon_call, reveal, party, chan>>

\* Turn i up to the return of the multiplication of prefix_eq and gt_i: the
\* product is added to the result.
GreaterThanPGT ==
    /\ circ.pc = "pgt"
    /\ \E coeff \in circ.coeffs, late \in LateChoices(circ) :
          LET peq_gt == multiply(circ.prefix_eq, circ.gt_i, circ.T, coeff, late)
          IN  circ' = [circ EXCEPT !.pc = "peq",
                                   !.result = add(@, peq_gt),
                                   !.late = @ + Fallbacks(circ.T, late)]
    /\ UNCHANGED <<policy, net, rbc_vars, ba_vars, acs, css_vars, mpc_vars,
                   css_got, beacon_call, reveal, party, chan>>

\* Turn i up to the return of the multiplication of prefix_eq and eq_i; after
\* the last turn greater_than returns the result.
GreaterThanPEQ ==
    /\ circ.pc = "peq"
    /\ \E coeff \in circ.coeffs, late \in LateChoices(circ) :
          circ' = [circ EXCEPT
                      !.pc = IF circ.i = Len(circ.bits_a) THEN "done" ELSE "ab",
                      !.i = @ + 1,
                      !.prefix_eq = multiply(@, circ.eq_i, circ.T, coeff, late),
                      !.late = @ + Fallbacks(circ.T, late)]
    /\ UNCHANGED <<policy, net, rbc_vars, ba_vars, acs, css_vars, mpc_vars,
                   css_got, beacon_call, reveal, party, chan>>

(***************************************************************************)
(* Specification of the comparison: two values given by the sharings of    *)
(* their bits are compared by the parties.                                 *)
(***************************************************************************)
\* The pairs of values compared.
CompareInputs == (0..(2 ^ NumBits - 1)) \X (0..(2 ^ NumBits - 1))

\* The sharings of the bits of v, most significant first.
BitSharingsMSB(v, c) ==
    [k \in 1..NumBits |-> SharesOf(<<BitOf(v, NumBits - k), c>>)]

InitCompare ==
    /\ policy = {}
    /\ net = {}
    /\ rbc_sender = 1
    /\ RBCIdle
    /\ BAIdle({NoInputs})
    /\ ACSIdle
    /\ CSSIdle({1})
    /\ MPCIdle
    /\ LayersIdle
    /\ PartyIdle
    /\ \E T \in CircuitActiveSets, ab \in CompareInputs, ca \in InputCoeffs :
       \E cb \in InputCoeffs \ {ca} :
          circ = [pc |-> "ab", T |-> T, a |-> ab[1], b |-> ab[2],
                  bits_a |-> BitSharingsMSB(ab[1], ca),
                  bits_b |-> BitSharingsMSB(ab[2], cb),
                  i |-> 1, gt_i |-> PublicShare(0), eq_i |-> PublicShare(0),
                  prefix_eq |-> PublicShare(1), result |-> PublicShare(0),
                  late |-> 0, coeffs |-> ReshareCoeffs]

NextCompare ==
    \/ GreaterThanAB
    \/ GreaterThanPGT
    \/ GreaterThanPEQ

SpecCompare == InitCompare /\ [][NextCompare]_vars

(***************************************************************************)
(* Second-price auction (src/circuits/auction.py).  stage is the step of   *)
(* SecondPriceAuction.run, idx and jdx its loop indices (from 1), pc the   *)
(* position in the decomposition or comparison it has called.              *)
(***************************************************************************)
\* reversed(b).
Reverse(s) == [k \in 1..Len(s) |-> s[Len(s) + 1 - k]]

\* The indices j != i of the active bids, in the order of the loops.
Others(i, m) == SortedSeq((1..m) \ {i})

\* The result a party returns when it is not in the active set.
None == -1

\* Step 1, the call of decompose for the bid of parties[idx]; decompose
\* consumes the next NumBits random bits.
AuctionDecomposeBid ==
    /\ circ.stage = "decompose"
    /\ circ.pc = "call"
    /\ circ' = [circ EXCEPT
                   !.pc = "decompose",
                   !.shared_value = circ.shares[circ.idx],
                   !.random_bits = Prefix(circ.queue, NumBits),
                   !.queue = SubSeq(@, NumBits + 1, Len(@))]
    /\ UNCHANGED <<policy, net, rbc_vars, ba_vars, acs, css_vars, mpc_vars,
                   css_got, beacon_call, reveal, party, chan>>

\* Step 1, the return of decompose; after the last bid step 2 starts.
AuctionBidDecomposed ==
    /\ circ.stage = "decompose"
    /\ circ.pc = "done"
    /\ LET m == Len(circ.parties)
           c == [circ EXCEPT !.bits = Append(@, circ.result), !.pc = "call"]
       IN  circ' = IF circ.idx < m
                   THEN [c EXCEPT !.idx = @ + 1]
                   ELSE [c EXCEPT !.stage = "compare", !.idx = 1, !.jdx = 2]
    /\ UNCHANGED <<policy, net, rbc_vars, ba_vars, acs, css_vars, mpc_vars,
                   css_got, beacon_call, reveal, party, chan>>

\* Step 2, the call of greater_than for the bids idx < jdx, on their bits
\* most significant first.
AuctionCompare ==
    /\ circ.stage = "compare"
    /\ circ.pc = "call"
    /\ circ' = [circ EXCEPT
                   !.pc = "ab", !.i = 1,
                   !.bits_a = Reverse(circ.bits[circ.idx]),
                   !.bits_b = Reverse(circ.bits[circ.jdx]),
                   !.prefix_eq = PublicShare(1),
                   !.result = PublicShare(0)]
    /\ UNCHANGED <<policy, net, rbc_vars, ba_vars, acs, css_vars, mpc_vars,
                   css_got, beacon_call, reveal, party, chan>>

\* Step 2, the return of greater_than: gt[(i, j)] and gt[(j, i)]; after the
\* last pair step 3 starts with the first factor of is_max[1].
AuctionCompared ==
    /\ circ.stage = "compare"
    /\ circ.pc = "done"
    /\ LET m == Len(circ.parties)
           gt == [circ.gt EXCEPT
                     ![<<circ.idx, circ.jdx>>] = circ.result,
                     ![<<circ.jdx, circ.idx>>] = sub(PublicShare(1), circ.result)]
           c == [circ EXCEPT !.gt = gt, !.pc = "call"]
       IN  circ' = IF circ.jdx < m
                   THEN [c EXCEPT !.jdx = @ + 1]
                   ELSE IF circ.idx < m - 1
                   THEN [c EXCEPT !.idx = @ + 1, !.jdx = circ.idx + 2]
                   ELSE [c EXCEPT !.stage = "max", !.pc = "auction",
                                  !.idx = 1, !.jdx = 2,
                                  !.product = gt[<<1, Others(1, m)[1]>>]]
    /\ UNCHANGED <<policy, net, rbc_vars, ba_vars, acs, css_vars, mpc_vars,
                   css_got, beacon_call, reveal, party, chan>>

\* Step 3, one multiplication of the product is_max[idx] of the gt[(idx, j)];
\* after the last one step 4 starts.
AuctionIsMax ==
    /\ circ.stage = "max"
    /\ \E coeff \in circ.coeffs, late \in LateChoices(circ) :
          LET m == Len(circ.parties)
              j == Others(circ.idx, m)[circ.jdx]
              product == multiply(circ.product, circ.gt[<<circ.idx, j>>],
                                  circ.T, coeff, late)
              c == [circ EXCEPT !.late = @ + Fallbacks(circ.T, late)]
          IN  circ' =
                 IF circ.jdx < m - 1
                 THEN [c EXCEPT !.product = product, !.jdx = @ + 1]
                 ELSE IF circ.idx < m
                 THEN [c EXCEPT !.is_max = Append(@, product),
                                !.idx = @ + 1, !.jdx = 2,
                                !.product =
                                    circ.gt[<<circ.idx + 1,
                                              Others(circ.idx + 1, m)[1]>>]]
                 ELSE [c EXCEPT !.is_max = Append(@, product),
                                !.stage = "min", !.idx = 1, !.jdx = 2,
                                !.product = circ.gt[<<Others(1, m)[1], 1>>]]
    /\ UNCHANGED <<policy, net, rbc_vars, ba_vars, acs, css_vars, mpc_vars,
                   css_got, beacon_call, reveal, party, chan>>

\* wins[i] of step 5 for four bids: the sum of the gt[(i, j)].
Wins(c, i) ==
    LET m == Len(c.parties)
        W[k \in 0..(m - 1)] ==
            IF k = 0 THEN PublicShare(0)
            ELSE add(W[k - 1], c.gt[<<i, Others(i, m)[k]>>])
    IN  W[m - 1]

\* Step 4, one multiplication of the product is_min[idx] of the gt[(j, idx)].
\* After the last one step 5 follows: for three bids is_second is computed
\* locally and step 6 starts, for four bids the multiplications of step 5.
AuctionIsMin ==
    /\ circ.stage = "min"
    /\ \E coeff \in circ.coeffs, late \in LateChoices(circ) :
          LET m == Len(circ.parties)
              j == Others(circ.idx, m)[circ.jdx]
              product == multiply(circ.product, circ.gt[<<j, circ.idx>>],
                                  circ.T, coeff, late)
              c == [circ EXCEPT !.late = @ + Fallbacks(circ.T, late)]
              is_min == Append(circ.is_min, product)
          IN  circ' =
                 IF circ.jdx < m - 1
                 THEN [c EXCEPT !.product = product, !.jdx = @ + 1]
                 ELSE IF circ.idx < m
                 THEN [c EXCEPT !.is_min = is_min,
                                !.idx = @ + 1, !.jdx = 2,
                                !.product =
                                    circ.gt[<<Others(circ.idx + 1, m)[1],
                                              circ.idx + 1>>]]
                 ELSE IF m = 3
                 THEN [c EXCEPT !.is_min = is_min,
                                !.is_second =
                                    [k \in 1..m |->
                                        sub(sub(PublicShare(1), circ.is_max[k]),
                                            is_min[k])],
                                !.stage = "sp", !.idx = 1]
                 ELSE [c EXCEPT !.is_min = is_min,
                                !.stage = "sec_t1", !.idx = 1]
    /\ UNCHANGED <<policy, net, rbc_vars, ba_vars, acs, css_vars, mpc_vars,
                   css_got, beacon_call, reveal, party, chan>>

\* Step 5 for four bids, the first multiplication for bid idx: w * (w - 1).
AuctionSecondT1 ==
    /\ circ.stage = "sec_t1"
    /\ \E coeff \in circ.coeffs, late \in LateChoices(circ) :
          LET w == Wins(circ, circ.idx)
              w_minus_1 == sub(w, PublicShare(1))
          IN  circ' = [circ EXCEPT
                          !.t1 = multiply(w, w_minus_1, circ.T, coeff, late),
                          !.stage = "sec_t2",
                          !.late = @ + Fallbacks(circ.T, late)]
    /\ UNCHANGED <<policy, net, rbc_vars, ba_vars, acs, css_vars, mpc_vars,
                   css_got, beacon_call, reveal, party, chan>>

\* Step 5 for four bids, the second multiplication for bid idx:
\* t1 * (w - 3), divided by -2.
AuctionSecondT2 ==
    /\ circ.stage = "sec_t2"
    /\ \E coeff \in circ.coeffs, late \in LateChoices(circ) :
          LET m == Len(circ.parties)
              inv_neg2 == FInverse(FNeg(2))
              w_minus_3 == sub(Wins(circ, circ.idx), PublicShare(3))
              t2 == multiply(circ.t1, w_minus_3, circ.T, coeff, late)
              c == [circ EXCEPT
                       !.is_second = Append(@, scalar_mul(inv_neg2, t2)),
                       !.late = @ + Fallbacks(circ.T, late)]
          IN  circ' = IF circ.idx < m
                      THEN [c EXCEPT !.stage = "sec_t1", !.idx = @ + 1]
                      ELSE [c EXCEPT !.stage = "sp", !.idx = 1]
    /\ UNCHANGED <<policy, net, rbc_vars, ba_vars, acs, css_vars, mpc_vars,
                   css_got, beacon_call, reveal, party, chan>>

\* Step 6, the term of bid idx, added to second_price.
AuctionSecondPrice ==
    /\ circ.stage = "sp"
    /\ \E coeff \in circ.coeffs, late \in LateChoices(circ) :
          LET m == Len(circ.parties)
              term == multiply(circ.shares[circ.idx], circ.is_second[circ.idx],
                               circ.T, coeff, late)
              c == [circ EXCEPT
                       !.second_price = IF circ.idx = 1 THEN term
                                        ELSE add(@, term),
                       !.late = @ + Fallbacks(circ.T, late)]
          IN  circ' = IF circ.idx < m
                      THEN [c EXCEPT !.idx = @ + 1]
                      ELSE [c EXCEPT !.stage = "out", !.idx = 1]
    /\ UNCHANGED <<policy, net, rbc_vars, ba_vars, acs, css_vars, mpc_vars,
                   css_got, beacon_call, reveal, party, chan>>

\* Step 7, the output of parties[idx]: is_max[idx] * second_price.
AuctionOutput ==
    /\ circ.stage = "out"
    /\ \E coeff \in circ.coeffs, late \in LateChoices(circ) :
          LET m == Len(circ.parties)
              out == multiply(circ.is_max[circ.idx], circ.second_price,
                              circ.T, coeff, late)
              c == [circ EXCEPT !.outputs = Append(@, out),
                                !.late = @ + Fallbacks(circ.T, late)]
          IN  circ' = IF circ.idx < m
                      THEN [c EXCEPT !.idx = @ + 1]
                      ELSE [c EXCEPT !.stage = "reveal", !.idx = 1]
    /\ UNCHANGED <<policy, net, rbc_vars, ba_vars, acs, css_vars, mpc_vars,
                   css_got, beacon_call, reveal, party, chan>>

\* Step 8, reveal_to_owner of the output of parties[idx] among the parties of
\* the active set: the owner opens the masked output from the first F + 1
\* shares that arrived, those of the parties S, and subtracts the mask it
\* interpolates from the mask shares of the parties SM.  After the last
\* output run returns: my_result in the active set, None outside it.
AuctionReveal ==
    /\ circ.stage = "reveal"
    /\ \E S \in Reconstructors(circ.T), SM \in Reconstructors(circ.T) :
          LET m == Len(circ.parties)
              pid == circ.parties[circ.idx]
              mask == circ.mask_shares[circ.idx]
              y == ReconstructFrom(S, add(circ.outputs[circ.idx], mask))
              output == FSub(y, ReconstructFrom(SM, mask))
              c == [circ EXCEPT !.results[pid] = output]
          IN  circ' = IF circ.idx < m
                      THEN [c EXCEPT !.idx = @ + 1]
                      ELSE [c EXCEPT !.stage = "returned"]
    /\ UNCHANGED <<policy, net, rbc_vars, ba_vars, acs, css_vars, mpc_vars,
                   css_got, beacon_call, reveal, party, chan>>

(***************************************************************************)
(* Specification of the auction: the parties of the active set, or all     *)
(* four, evaluate SecondPriceAuction.run on the sharings of the bids.      *)
(***************************************************************************)
\* The bids of parties 1..4, pairwise distinct.
AuctionBids == {<<1, 3, 2, 0>>, <<2, 1, 0, 3>>, <<0, 2, 3, 1>>}

\* The values of the random bits the decomposition of the k-th active bid
\* consumes, and the preprocessed masks.
AuctionRandom == <<1, 0, 1, 0>>

AuctionMasks == <<3, 1, 4, 2>>

\* The coefficients of the resharing polynomials of the auction runs.
AuctionCoeffs == {<<1, 2, 3, 1>>}

InitAuction ==
    /\ policy = {}
    /\ net = {}
    /\ rbc_sender = 1
    /\ RBCIdle
    /\ BAIdle({NoInputs})
    /\ ACSIdle
    /\ CSSIdle({1})
    /\ MPCIdle
    /\ LayersIdle
    /\ PartyIdle
    /\ \E T \in CircuitActiveSets, bids \in AuctionBids, cx \in InputCoeffs :
          LET parties == SortedSeq(T)
              m == Len(parties)
              bitq == [k \in 1..m |-> BitSharings(AuctionRandom[k], cx)]
          IN  circ = [stage |-> "decompose", pc |-> "call", T |-> T,
                      parties |-> parties, bids |-> bids,
                      shares |-> [k \in 1..m |->
                                     SharesOf(<<bids[parties[k]], cx>>)],
                      queue |-> [k \in 1..(m * NumBits) |->
                                    bitq[((k - 1) \div NumBits) + 1]
                                        [((k - 1) % NumBits) + 1]],
                      mask_shares |-> [k \in 1..N |->
                                          SharesOf(<<AuctionMasks[k] % PRIME, cx>>)],
                      idx |-> 1, jdx |-> 1, bits |-> <<>>,
                      gt |-> [ij \in (1..m) \X (1..m) |-> PublicShare(0)],
                      product |-> PublicShare(0), is_max |-> <<>>,
                      is_min |-> <<>>, is_second |-> <<>>,
                      t1 |-> PublicShare(0), second_price |-> PublicShare(0),
                      outputs |-> <<>>,
                      results |-> [p \in Parties |-> None],
                      shared_value |-> PublicShare(0), random_bits |-> <<>>,
                      y_bits |-> <<>>, i |-> 0, borrow |-> PublicShare(0),
                      result |-> <<>>, bits_a |-> <<>>, bits_b |-> <<>>,
                      gt_i |-> PublicShare(0), eq_i |-> PublicShare(0),
                      prefix_eq |-> PublicShare(1),
                      late |-> 0, coeffs |-> AuctionCoeffs]

NextAuction ==
    \/ AuctionDecomposeBid
    \/ Decompose
    \/ BitSubtractionXor
    \/ BitSubtractionBorrow
    \/ AuctionBidDecomposed
    \/ AuctionCompare
    \/ GreaterThanAB
    \/ GreaterThanPGT
    \/ GreaterThanPEQ
    \/ AuctionCompared
    \/ AuctionIsMax
    \/ AuctionIsMin
    \/ AuctionSecondT1
    \/ AuctionSecondT2
    \/ AuctionSecondPrice
    \/ AuctionOutput
    \/ AuctionReveal

SpecAuction == InitAuction /\ [][NextAuction]_vars

(***************************************************************************)
(* The party (src/party.py).  party[p] is the state of Party.run at p: pc  *)
(* is its position, wait[d] the task _wait_for_acceptance(d), readers says *)
(* that the dispatcher and its channel readers are alive, handlers counts  *)
(* the handler tasks the readers created that have not finished, spawned   *)
(* all those created.  Phase 3 is the ACS model above: the tasks watch_rbc *)
(* and run_ba_for of the party are read from acs[p].  The CSS sessions of  *)
(* the inputs are seen through what the omission policy lets finalize, the *)
(* auction through its return.                                             *)
(***************************************************************************)
\* The most handler tasks a party's readers create in a run.
MaxHandlers == 1

\* The parties whose readers' handler tasks are followed.
HandlerParties == {1}

\* Party.run() is called at party p: the dispatcher is created, phase 1
\* deals the bid, and phase 2 starts a task _wait_for_acceptance per other
\* dealer.
PartyRun(p) ==
    /\ party[p].pc = "idle"
    /\ party' = [party EXCEPT ![p] =
                    [pc |-> "phase2", accepted |-> {p},
                     wait |-> [d \in Parties \ {p} |-> "waiting"],
                     expired |-> {}, readers |-> TRUE,
                     handlers |-> 0, spawned |-> 0, result |-> "none"]]
    /\ UNCHANGED <<policy, net, rbc_vars, ba_vars, acs, css_vars, mpc_vars,
                   css_got, beacon_call, reveal, circ, chan>>

\* The session input_d can finalize at party p: d has dealt, and F + 1
\* parties that run, d or a party its share reaches, echo to p or are p.
CSSMayFinalize(d, p) ==
    /\ party[d].pc # "idle"
    /\ Cardinality({ q \in Parties :
                        /\ party[q].pc # "idle"
                        /\ q = d \/ MayPass(d, q, "CSS_SHARE")
                        /\ q = p \/ MayPass(q, p, "CSS_ECHO") }) >= F + 1

\* _wait_for_acceptance(d) at party p, css.wait_accepted has returned.
PartyAccepted(p, d) ==
    /\ party[p].pc = "phase2"
    /\ d # p
    /\ party[p].wait[d] = "waiting"
    /\ CSSMayFinalize(d, p)
    /\ party' = [party EXCEPT ![p].wait[d] = "accepted",
                              ![p].accepted = @ \cup {d}]
    /\ UNCHANGED <<policy, net, rbc_vars, ba_vars, acs, css_vars, mpc_vars,
                   css_got, beacon_call, reveal, circ, chan>>

\* The timers of 3.0 s of the tasks _wait_for_acceptance of party p, started
\* together, have expired: the tasks still waiting end without a dealer.
PartyAcceptTimeout(p) ==
    /\ party[p].pc = "phase2"
    /\ \E d \in Parties \ {p} : party[p].wait[d] = "waiting"
    /\ party' = [party EXCEPT
                    ![p].wait = [d \in Parties \ {p} |->
                                    IF party[p].wait[d] = "waiting"
                                    THEN "timeout" ELSE party[p].wait[d]],
                    ![p].expired = { d \in Parties \ {p} :
                                        party[p].wait[d] = "waiting" }]
    /\ UNCHANGED <<policy, net, rbc_vars, ba_vars, acs, css_vars, mpc_vars,
                   css_got, beacon_call, reveal, circ, chan>>

\* What `finally` of run does: the dispatcher is cancelled, and with it the
\* channel readers; a task of _run_protocol still waiting is cancelled by
\* wait_for.
Returned(s, result) ==
    [s EXCEPT !.pc = "returned", !.result = result, !.readers = FALSE,
              !.wait = [d \in DOMAIN s.wait |->
                           IF s.wait[d] = "waiting" THEN "cancelled"
                           ELSE s.wait[d]]]

\* asyncio.gather(*wait_tasks) has returned at party p: every task has ended.
\* With fewer than N - F accepted dealers run returns None, else phase 3
\* calls ACS.run.
PartyGathered(p) ==
    /\ party[p].pc = "phase2"
    /\ \A d \in Parties \ {p} : party[p].wait[d] # "waiting"
    /\ party' = [party EXCEPT ![p] =
                    IF Cardinality(party[p].accepted) < N - F
                    THEN Returned(party[p], "none")
                    ELSE [party[p] EXCEPT !.pc = "phase3"]]
    /\ UNCHANGED <<policy, net, rbc_vars, ba_vars, acs, css_vars, mpc_vars,
                   css_got, beacon_call, reveal, circ, chan>>

\* The session input_d can hold a share at party p when phase 5 asks for it:
\* css._shares has it (p dealt it, or the CSS_SHARE of d can reach p), or
\* F + 1 echoes can be there.
CSSMayHold(d, p) ==
    \/ d = p
    \/ party[d].pc # "idle" /\ MayPass(d, p, "CSS_SHARE")
    \/ CSSMayFinalize(d, p)

\* What the loop of phase 5 at party p can end with over the active set T:
\* TRUE when every get_share(input_j) returned, FALSE when one raised
\* KeyError.  The session of an accepted dealer is finalized and holds a
\* share; another session holds one or not, as far as its messages got.
Phase5Outcomes(p, T) ==
    { ok \in BOOLEAN :
         /\ ok => \A j \in T : j \in party[p].accepted \/ CSSMayHold(j, p)
         /\ ~ok => \E j \in T : j \notin party[p].accepted }

\* Phases 4 to 6 at party p after ACS.run has returned the active set, up to
\* the end of run: the KeyError of a get_share of phase 5, which no handler
\* of run catches, else the output of the auction in the active set, None
\* outside it.
PartyFinish(p) ==
    /\ party[p].pc = "phase3"
    /\ acs[p].pc = "done"
    /\ \E ok \in Phase5Outcomes(p, acs[p].result) :
          party' = [party EXCEPT ![p] =
                       Returned(party[p],
                                IF ~ok THEN "KeyError"
                                ELSE IF p \in acs[p].result THEN "output"
                                ELSE "none")]
    /\ UNCHANGED <<policy, net, rbc_vars, ba_vars, acs, css_vars, mpc_vars,
                   css_got, beacon_call, reveal, circ, chan>>

\* The timer of 15.0 s around ACS.run, or that of protocol_timeout, which is
\* longer than the 3.0 s of phase 2, has expired at party p: run returns None.
PartyTimeout(p) ==
    /\ party[p].pc = "phase3"
    /\ party' = [party EXCEPT ![p] = Returned(party[p], "none")]
    /\ UNCHANGED <<policy, net, rbc_vars, ba_vars, acs, css_vars, mpc_vars,
                   css_got, beacon_call, reveal, circ, chan>>

\* _channel_reader at party p has received a message and created a task for
\* its handler.
PartyReceive(p) ==
    /\ p \in HandlerParties
    /\ party[p].pc # "idle"
    /\ party[p].readers
    /\ party[p].spawned < MaxHandlers
    /\ party' = [party EXCEPT ![p].handlers = @ + 1, ![p].spawned = @ + 1]
    /\ UNCHANGED <<policy, net, rbc_vars, ba_vars, acs, css_vars, mpc_vars,
                   css_got, beacon_call, reveal, circ, chan>>

\* A handler task of party p has run to its end.
PartyHandlerDone(p) ==
    /\ party[p].pc # "idle"
    /\ party[p].handlers > 0
    /\ party' = [party EXCEPT ![p].handlers = @ - 1]
    /\ UNCHANGED <<policy, net, rbc_vars, ba_vars, acs, css_vars, mpc_vars,
                   css_got, beacon_call, reveal, circ, chan>>

\* The events of party p can still be set: its readers are alive or a
\* handler task is pending.
EventsCanFire(p) ==
    party[p].pc # "idle" /\ (party[p].readers \/ party[p].handlers > 0)

\* The tasks party p has created that have neither finished nor been
\* cancelled.
PendingTasks(p) ==
    IF party[p].pc = "idle" THEN {}
    ELSE { <<"reader", s>> : s \in { s \in Parties \ {p} : party[p].readers } }
         \cup { <<"handler", k>> : k \in 1..party[p].handlers }
         \cup { <<"wait", d>> :
                   d \in { d \in Parties \ {p} : party[p].wait[d] = "waiting" } }
         \cup { <<"watch_rbc", pid>> :
                   pid \in { pid \in Parties \ {p} :
                                /\ acs[p].pc # "idle"
                                /\ pid \notin acs[p].delivered } }
         \cup { <<"run_ba_for", j>> :
                   j \in DOMAIN acs[p].ba_tasks \ DOMAIN acs[p].ba_results }

(***************************************************************************)
(* Specification of the acceptance of the inputs: phases 1 and 2 of the    *)
(* four parties up to the call of ACS.run, with party 4 silent in both     *)
(* directions, or deaf only.                                               *)
(***************************************************************************)
AcceptancePolicies == { {DropAll(4, "both")}, {DropAll(4, "receive")} }

InitAcceptance ==
    /\ policy \in AcceptancePolicies
    /\ net = {}
    /\ rbc_sender = 1
    /\ RBCIdle
    /\ BAIdle({NoInputs})
    /\ ACSIdle
    /\ CSSIdle({1})
    /\ MPCIdle
    /\ AppIdle

\* The steps of phases 1 to 3 that are no expiry of a timer.
NextEvidence ==
    \/ \E p \in Parties : PartyRun(p)
    \/ \E p, d \in Parties : PartyAccepted(p, d)
    \/ \E p \in Parties : PartyGathered(p)
    \/ \E p \in Parties : party[p].pc = "phase3" /\ ACSRun(p, party[p].accepted)

NextAcceptance ==
    \/ NextEvidence
    \/ \E p \in Parties : PartyAcceptTimeout(p)

\* The runs in which a step that is no expiry of a timer is taken when one
\* stays possible; no timer has to expire.
SpecAcceptance == InitAcceptance /\ [][NextAcceptance]_vars /\ WF_vars(NextEvidence)

(***************************************************************************)
(* Specification of the party: the four parties run, party 4 silent in     *)
(* both directions.                                                        *)
(***************************************************************************)
PartyPolicies == { {DropAll(4, "both")} }

InitParty ==
    /\ policy \in PartyPolicies
    /\ net = {}
    /\ rbc_sender = 1
    /\ RBCIdle
    /\ BAIdle({NoInputs})
    /\ ACSIdle
    /\ CSSIdle({1})
    /\ MPCIdle
    /\ AppIdle

NextParty ==
    \/ NextAcceptance
    \/ \E p, pid \in Parties : EventsCanFire(p) /\ ACSWatchRBC(p, pid)
    \/ \E p, j \in Parties, v \in {0, 1} : EventsCanFire(p) /\ ACSBAResult(p, j, v)
    \/ \E p \in Parties : party[p].pc = "phase3" /\ ACSEnough(p)
    \/ \E p \in Parties : party[p].pc = "phase3" /\ ACSReturn(p)
    \/ \E p \in Parties : PartyFinish(p)
    \/ \E p \in Parties : PartyTimeout(p)
    \/ \E p \in Parties : PartyReceive(p)
    \/ \E p \in Parties : PartyHandlerDone(p)

SpecParty == InitParty /\ [][NextParty]_vars

(***************************************************************************)
(* Specification of the shares of the agreed set: party 4 omits its        *)
(* CSS_SHARE and CSS_ECHO messages and takes part in everything else.      *)
(* Parties 1 and 2 are followed to the end of run; party 3 is slow, it     *)
(* reaches ACS.run and none of its tasks resumes; at party 4 the tasks     *)
(* watch_rbc resume and no BA instance has returned.                       *)
(***************************************************************************)
SharesPolicies == { {DropTypes(4, {"CSS_SHARE", "CSS_ECHO"})} }

SharesWatchers == {1, 2, 4}

SharesActive == {1, 2}

InitShares ==
    /\ policy \in SharesPolicies
    /\ net = {}
    /\ rbc_sender = 1
    /\ RBCIdle
    /\ BAIdle({NoInputs})
    /\ ACSIdle
    /\ CSSIdle({1})
    /\ MPCIdle
    /\ AppIdle

NextShares ==
    \/ NextAcceptance
    \/ \E p \in SharesWatchers, pid \in Parties :
          EventsCanFire(p) /\ ACSWatchRBC(p, pid)
    \/ \E p \in SharesActive, j \in Parties, v \in {0, 1} :
          EventsCanFire(p) /\ ACSBAResult(p, j, v)
    \/ \E p \in SharesActive : party[p].pc = "phase3" /\ ACSEnough(p)
    \/ \E p \in SharesActive : party[p].pc = "phase3" /\ ACSReturn(p)
    \/ \E p \in SharesActive : PartyFinish(p)

SpecShares == InitShares /\ [][NextShares]_vars

(***************************************************************************)
(* One channel (src/sim/network.py): the MessageChannel of a directed pair  *)
(* (s, r), the calls of Network.send(s, r, msg) under way and the clock of  *)
(* the event loop.  A message is the number of its send call, counted in    *)
(* the order in which s issues the calls.                                   *)
(***************************************************************************)
\* The number of send calls followed.
MaxSends == 3

\* The last instant of the clock.
MaxTime == 3

\* The delays delay_model.sample() returns, in instants of the clock.
Delays == {0, 1, 2}

\* The tasks of s that call Network.send: the protocol coroutine and the
\* handler tasks _channel_reader has created.
SenderTasks == {"run", "handler_1", "handler_2"}

\* A task that is in no call of send.
NotSending == [msg |-> 0, wake |-> 0]

\* The channel after Network.__init__: an empty queue; nothing sent or
\* received.  sender[k] is the task that issued send call k.
NewChannel ==
    [ now |-> 0, issued |-> 0, sender |-> <<>>,
      sending |-> [t \in SenderTasks |-> NotSending],
      queue |-> <<>>, received |-> <<>> ]

\* Task t calls Network.send(s, r, msg): the message is not dropped, delay is
\* the sample of the delay model, and MessageChannel.send puts the message on
\* the queue at once when delay is 0 and sleeps otherwise.
ChannelSend(t, delay) ==
    /\ chan.issued < MaxSends
    /\ chan.sending[t] = NotSending
    /\ LET k == chan.issued + 1
           c == [chan EXCEPT !.issued = k, !.sender = Append(@, t)]
       IN  chan' = IF delay > 0
                   THEN [c EXCEPT !.sending[t] =
                                      [msg |-> k, wake |-> chan.now + delay]]
                   ELSE [c EXCEPT !.queue = Append(@, k)]
    /\ UNCHANGED <<policy, net, rbc_vars, ba_vars, acs, css_vars, mpc_vars,
                   css_got, beacon_call, reveal, circ, party>>

\* The sleeps that are over.
Due(c) == { t \in SenderTasks : c.sending[t] # NotSending
                                /\ c.sending[t].wake <= c.now }

\* asyncio.sleep(delay) returns in task t and the message is put on the
\* queue; the event loop runs the timers that are due in the order of their
\* times.
ChannelWake(t) ==
    /\ t \in Due(chan)
    /\ \A u \in Due(chan) : chan.sending[t].wake <= chan.sending[u].wake
    /\ chan' = [chan EXCEPT !.queue = Append(@, chan.sending[t].msg),
                            !.sending[t] = NotSending]
    /\ UNCHANGED <<policy, net, rbc_vars, ba_vars, acs, css_vars, mpc_vars,
                   css_got, beacon_call, reveal, circ, party>>

\* The clock moves on when no timer is due.
ChannelTick ==
    /\ chan.now < MaxTime
    /\ Due(chan) = {}
    /\ chan' = [chan EXCEPT !.now = @ + 1]
    /\ UNCHANGED <<policy, net, rbc_vars, ba_vars, acs, css_vars, mpc_vars,
                   css_got, beacon_call, reveal, circ, party>>

\* MessageChannel.receive at r: queue.get().
ChannelReceive ==
    /\ chan.queue # <<>>
    /\ chan' = [chan EXCEPT !.queue = Tail(@),
                            !.received = Append(@, Head(chan.queue))]
    /\ UNCHANGED <<policy, net, rbc_vars, ba_vars, acs, css_vars, mpc_vars,
                   css_got, beacon_call, reveal, circ, party>>

(***************************************************************************)
(* Specification of a channel: the tasks of a correct sender send to a      *)
(* correct receiver with every delay of Delays.                             *)
(***************************************************************************)
InitChannel ==
    /\ policy = {}
    /\ net = {}
    /\ rbc_sender = 1
    /\ RBCIdle
    /\ BAIdle({NoInputs})
    /\ ACSIdle
    /\ CSSIdle({1})
    /\ MPCIdle
    /\ css_got = [p \in Parties |-> NoGetShare]
    /\ beacon_call = [p \in Parties |-> NoBeaconCall]
    /\ reveal = [p \in Parties |-> NewReveal]
    /\ circ = NoCircuit
    /\ PartyIdle
    /\ chan = NewChannel

NextChannel ==
    \/ \E t \in SenderTasks, delay \in Delays : ChannelSend(t, delay)
    \/ \E t \in SenderTasks : ChannelWake(t)
    \/ ChannelTick
    \/ ChannelReceive

SpecChannel == InitChannel /\ [][NextChannel]_vars

(***************************************************************************)
(* Properties of RBC.                                                      *)
(***************************************************************************)
CorrectParties == { p \in Parties : Correct(p) }

\* C1 (RBC Agreement): two correct parties that have delivered for the
\* instance have delivered the same payload.
RBCAgreement ==
    \A p, q \in CorrectParties :
        (inst[p].delivered /\ inst[q].delivered)
            => inst[p].delivered_value = inst[q].delivered_value

\* Two correct parties have delivered after the sender broadcast two
\* different payloads under the same tag.
RBCAgreementWitness ==
    /\ Len(bcast) = 2 /\ bcast[1] # bcast[2]
    /\ \E p, q \in CorrectParties : p # q /\ inst[p].delivered /\ inst[q].delivered

\* C2 (RBC Validity): once a correct sender has broadcast v and every message
\* that was not dropped has been handled, every correct party has delivered v.
RBCValidity ==
    (Correct(rbc_sender) /\ bcast # <<>> /\ net = {})
        => \A p \in CorrectParties :
              inst[p].delivered /\ inst[p].delivered_value = bcast[1]

\* C3 (RBC totality, faulty sender): once every message that was not dropped
\* has been handled, if one correct party has delivered then every correct
\* party has delivered, and the same payload.
RBCTotality ==
    (~Correct(rbc_sender) /\ net = {})
        => \A p, q \in CorrectParties :
              inst[p].delivered
                  => (inst[q].delivered
                      /\ inst[q].delivered_value = inst[p].delivered_value)

\* C4 (RBC Integrity): sent_echo, sent_ready and delivered never go back to
\* false, the delivered payload never changes, and the delivery branch runs
\* at most once.
RBCIntegrity ==
    [][ \A p \in Parties :
          /\ inst[p].sent_echo => inst'[p].sent_echo
          /\ inst[p].sent_ready => inst'[p].sent_ready
          /\ inst[p].delivered =>
                (inst'[p].delivered
                 /\ inst'[p].delivered_value = inst[p].delivered_value)
          /\ inst'[p].deliveries <= 1 ]_vars

\* A party has sent its ECHO and READY and delivered, the sender has
\* broadcast a second time, and every message to the party has been handled.
RBCIntegrityWitness ==
    \E p \in Parties :
        /\ inst[p].sent_echo /\ inst[p].sent_ready
        /\ inst[p].delivered /\ inst[p].deliveries = 1
        /\ Len(bcast) = 2
        /\ ~ \E m \in net : m.to = p

(***************************************************************************)
(* Properties of BA.                                                       *)
(***************************************************************************)
\* C5 (BA Agreement): two correct parties whose instance is decided hold the
\* same decided value, whether it was set by run's own tally or adopted from a
\* BA_DECIDE.
BAAgreement ==
    \A p, q \in CorrectParties :
        (ba[p].decided /\ ba[q].decided)
            => ba[p].decided_value = ba[q].decided_value

\* With split inputs, one correct party has decided from its own tally of a
\* round and another, still suspended in run, has adopted a BA_DECIDE.
BAAgreementWitness ==
    /\ \E p, q \in CorrectParties : ba_input[p] # ba_input[q]
    /\ \E p, q \in CorrectParties :
          /\ ba[p].decided /\ ba_pc[p] = "done"
          /\ Cardinality(ba[p].votes[ba[p].round][ba[p].decided_value]) >= N - F
          /\ ba[q].decided /\ ba_pc[q] = "wait"

\* C6 (BA Validity): when every correct party calls run with the same input
\* v, no correct party ever holds the decided value 1 - v, whatever the
\* omitting party does.
BAValidity ==
    \A v \in {0, 1} :
        (\A p \in CorrectParties : ba_input[p] = v)
            => \A p \in CorrectParties :
                  ba[p].decided => ba[p].decided_value = v

\* The correct parties are unanimous, the omitting party has voted the other
\* value, a correct party has counted that vote and has decided.
BAValidityWitness ==
    \E v \in {0, 1} :
        /\ \A p \in CorrectParties : ba_input[p] = v
        /\ \E p \in CorrectParties, q \in Parties \ CorrectParties :
              /\ 1 \in DOMAIN ba[p].votes
              /\ q \in ba[p].votes[1][1 - v]
              /\ ba[p].decided /\ ba_pc[p] = "done"

\* The returns of run in SpecBA are among those SpecACS takes a BA instance
\* to give.
BAContract ==
    \A p \in Parties :
        ba_pc[p] = "done"
            => BAOutcome(ba[p].decided_value,
                         [q \in { q \in Parties : ba_pc[q] # "idle" /\ Voter(q, p) } |->
                              ba_input[q]],
                         { ba[q].decided_value :
                              q \in { q \in Parties : ba_pc[q] = "done" } })

\* run at party p can take a step.
BARunnable(p) ==
    \/ ba_pc[p] = "vote"
    \/ ba_pc[p] = "wait" /\ ba[p].vote_events[ba[p].round]
    \/ ba_pc[p] = "coin" /\ BeaconIdx(ba[p].round) \in DOMAIN beacon.values

\* Every party has called run, every message that was not dropped has been
\* handled, and no run can take a step: nothing more will happen.
BAAtRest ==
    /\ net = {}
    /\ \A p \in Parties : ba_pc[p] # "idle" /\ ~BARunnable(p)

\* C7 (BA Termination): once every party has called run and nothing more can
\* happen, run has returned a decided value at every correct party.
BATermination ==
    BAAtRest => \A p \in CorrectParties : ba_pc[p] = "done" /\ ba[p].decided

\* C8 (BA DECIDE short-circuit): a correct party that has handled a BA_DECIDE
\* while run was waiting for the votes of a round is not left waiting when no
\* further vote arrives.
BADecideUnblocks ==
    BAAtRest => \A p \in CorrectParties : ~(ba[p].decided /\ ba_pc[p] = "wait")

(***************************************************************************)
(* Properties of ACS.                                                      *)
(***************************************************************************)
\* C9 (ACS Agreement): two correct parties whose ACSProtocol.run has returned
\* have returned the same set.
ACSAgreement ==
    \A p, q \in CorrectParties :
        (acs[p].pc = "done" /\ acs[q].pc = "done")
            => acs[p].result = acs[q].result

\* Two correct parties have returned after giving different inputs to the BA
\* instance of the omitting party.
ACSAgreementWitness ==
    \E p, q \in CorrectParties, j \in Parties \ CorrectParties :
        /\ acs[p].pc = "done" /\ acs[q].pc = "done"
        /\ acs[p].ba_tasks[j] = 0 /\ acs[q].ba_tasks[j] = 1

\* C10 (ACS output size): the set returned by ACSProtocol.run at a correct
\* party has at least N-F members.
ACSOutputSize ==
    \A p \in CorrectParties :
        acs[p].pc = "done" => Cardinality(acs[p].result) >= N - F

\* A correct party has returned a set of exactly N-F members, one BA instance
\* having decided 0.
ACSOutputSizeWitness ==
    \E p \in CorrectParties :
        /\ acs[p].pc = "done"
        /\ Cardinality(acs[p].result) = N - F
        /\ \E j \in Parties : acs[p].ba_results[j] = 0

(***************************************************************************)
(* Termination of ACS.  run_ba_for(j, estimate) records the result of a BA  *)
(* instance only after ba.run has returned, so the BA instance of an        *)
(* omitting party is followed here in the model of src/protocols/ba.py.     *)
(***************************************************************************)
\* run_ba_for(j, estimate) at party p has the result of ba.run and calls
\* on_ba_result.
ACSRunBAForReturned(p) == ba_pc[p] = "done"

\* The inputs ACS gives to the BA instance of an omitting party whose
\* proposal no correct party has delivered: the correct parties input 0 in
\* step 4, the party itself has input 1.
ACSOmitterInputs ==
    \A p \in Parties : ba_input[p] = IF Correct(p) THEN 0 ELSE 1

\* C11 (ACS Termination): in the BA instance of an omitting party, once every
\* party has given its input and nothing more can happen, ba.run has returned
\* at every correct party, so that its result is recorded and all_ba_done
\* fires.
ACSTermination ==
    (BAAtRest /\ ACSOmitterInputs)
        => \A p \in CorrectParties : ACSRunBAForReturned(p)

\* C12 (ACS excludes a silent party): when DropAll drops every message to and
\* from party j and the other parties are correct, the set returned at a
\* correct party does not contain j and has exactly N-1 members.
ACSSilentExcluded ==
    \A j \in Parties :
        policy = {DropAll(j, "both")}
            => \A p \in CorrectParties :
                  acs[p].pc = "done"
                      => (j \notin acs[p].result
                          /\ Cardinality(acs[p].result) = N - 1)

\* Under DropAll the silent party has called run accepting itself and has
\* started its own BA instance with input 1, and every correct party has
\* returned.
ACSSilentExcludedWitness ==
    \E j \in Parties :
        /\ policy = {DropAll(j, "both")}
        /\ j \in DOMAIN acs[j].ba_tasks /\ acs[j].ba_tasks[j] = 1
        /\ \A p \in CorrectParties : acs[p].pc = "done"

(***************************************************************************)
(* Properties of CSS.                                                      *)
(***************************************************************************)
\* C13 (CSS finalize-once): at every party the status of the session goes
\* from pending to finalized at most once and never leaves finalized, the
\* finalized event is set exactly at that step and stays set, and once the
\* session is finalized get_share returns a share without error.
CSSFinalizeOnce ==
    [][ \A p \in Parties :
          /\ css[p].status = "finalized" => css'[p].status = "finalized"
          /\ css'[p].finalizations <= 1
          /\ css[p].finalized => css'[p].finalized
          /\ (~css[p].finalized /\ css'[p].finalized)
                <=> (css[p].status = "pending" /\ css'[p].status = "finalized")
          /\ css'[p].status = "finalized" => ~GetShare(css'[p], p).error ]_vars

\* A party has finalized from the echoes of others before its CSS_SHARE came,
\* and has since handled that share and recorded further echoes.
CSSFinalizeOnceWitness ==
    \E p \in Parties :
        /\ css[p].status = "finalized" /\ css[p].finalizations = 1
        /\ Len(css[p].echoes) > F + 1
        /\ css[p].echoes[Len(css[p].echoes)][1] = p
        /\ css[p].task = "none"

\* Nothing more will happen in the session: share has returned or was never
\* called, no coroutine is suspended and every message that was not dropped
\* has been handled.
CSSAtRest ==
    /\ net = {}
    /\ css_deal.i \in {0, N + 1}
    /\ \A p \in Parties : css[p].task = "none"

\* C14 (CSS finalization totality): once nothing more can happen, if the
\* session is finalized at one correct party it is finalized at every correct
\* party, also when the dealer omits its messages to some parties.
CSSTotality ==
    CSSAtRest
        => ((\E p \in CorrectParties : css[p].status = "finalized")
                => \A q \in CorrectParties : css[q].status = "finalized")

\* C15 (CSS VID agreement): two correct parties that have both finalized the
\* session hold the same VID.
CSSVidAgreement ==
    \A p, q \in CorrectParties :
        (css[p].status = "finalized" /\ css[q].status = "finalized")
            => GetVid(css[p]) = GetVid(css[q])

\* C16 (CSS echo-based finalization): whenever no handler is in the middle
\* of a step, the session is finalized at a party exactly when the party has
\* recorded F+1 or more echo points, and handling a CSS_READY changes nothing
\* of the CSS state.
CSSEchoFinalization ==
    /\ [](\A p \in Parties :
            (css[p].status = "finalized") <=> (Len(css[p].echoes) >= F + 1))
    /\ [][ (\E m \in net : m.msg_type = "CSS_READY" /\ net' = net \ {m})
              => UNCHANGED css_vars ]_vars

\* A party that is still pending with one echo has handled the CSS_READY of
\* a finalized party.
CSSEchoFinalizationWitness ==
    \E p, q \in Parties :
        /\ p # q
        /\ css[q].status = "finalized" /\ css[q].ready_sent
        /\ MayPass(q, p, "CSS_READY")
        /\ ~ \E m \in net : m.msg_type = "CSS_READY" /\ m.sender = q /\ m.to = p
        /\ css[p].status = "pending" /\ Len(css[p].echoes) = 1

\* C17 (CSS VID stability): once the session is finalized at a party its VID
\* is set, and no later step changes it.
CSSVidStable ==
    [][ \A p \in Parties :
          css[p].status = "finalized"
              => (css[p].has_vid /\ css'[p].has_vid /\ css'[p].vid = css[p].vid) ]_vars

\* A finalized party has recorded an echo, handled its CSS_SHARE and handled
\* a CSS_READY after its VID was set from F+1 echoes.
CSSVidStableWitness ==
    \E p \in Parties :
        /\ css[p].status = "finalized" /\ css[p].has_vid
        /\ Len(css[p].vid[2]) = F + 1
        /\ Len(css[p].echoes) = F + 2
        /\ \E k \in 1..(F + 1) : css[p].echoes[k][1] # css[p].vid[2][k][1]
        /\ \E q \in Parties \ {p} :
              /\ css[q].ready_sent /\ MayPass(q, p, "CSS_READY")
              /\ ~ \E m \in net : m.msg_type = "CSS_READY" /\ m.sender = q /\ m.to = p

(***************************************************************************)
(* Properties of MPC arithmetic.                                           *)
(***************************************************************************)
\* The parties at which multiply has returned.
MulDone == { p \in Parties : mpc[p].pc = "done" }

\* The points <<p, share of p>> of the product shares of the parties of S,
\* by party.
ProductPoints(S) ==
    LET ps == SortedSeq(S)
    IN  [k \in 1..Len(ps) |-> <<ps[k], mpc[ps[k]].result>>]

\* C18 (per-gate agreement in multiply): the correct parties that have
\* completed multiply for the gate have recombined over the same set of
\* sub-dealers, and their product shares lie on one polynomial of degree F.
MulSameSubDealers ==
    /\ \A p, q \in CorrectParties \cap MulDone :
          mpc[p].used_set = mpc[q].used_set
    /\ \A S \in SUBSET (CorrectParties \cap MulDone) :
          Cardinality(S) = F + 1
              => \A r \in CorrectParties \cap MulDone :
                    InterpolateAt(ProductPoints(S), r) = mpc[r].result

\* C19 (multiply round-trip): once every correct party has run multiply for
\* the gate, the interpolation at 0 of any F+1 of the product shares is the
\* product of the two shared values.
MulRoundTrip ==
    (\A p \in CorrectParties : p \in MulDone)
        => \A S \in SUBSET MulDone :
              Cardinality(S) = F + 1
                  => interpolate_at_zero(ProductPoints(S))
                         = FMul(mpc_in.fa[1], mpc_in.fb[1])

\* C20 (open correctness): for a sharing of degree at most F of a value v,
\* open_value returns v at every correct party, whichever F+1 shares it has
\* recorded first.
OpenCorrect ==
    \A p \in CorrectParties :
        opn[p].pc = "done" => opn[p].result = mpc_in.fv[1]

\* Two correct parties have returned from open_value having interpolated
\* different pairs of shares, one of them without its own share, of a sharing
\* that is not constant.
OpenCorrectWitness ==
    /\ mpc_in.fv[2] # 0
    /\ \E p, q \in CorrectParties :
          /\ opn[p].pc = "done" /\ opn[q].pc = "done"
          /\ { opn[p].reshares[k][1] : k \in 1..(F + 1) }
                # { opn[q].reshares[k][1] : k \in 1..(F + 1) }
          /\ \A k \in 1..(F + 1) : opn[p].reshares[k][1] # p

(***************************************************************************)
(* Further properties of RBC.                                              *)
(***************************************************************************)

\* The policies under which every message sent by party s is dropped: s
\* silent in both directions, and s deaf and omitting to every other party.
SilentSenderPolicies(s) ==
    { {DropAll(s, "both")},
      {SelectiveOmission(s, Parties \ {s}), DropAll(s, "receive")} }

\* C29 (RBC with a silent sender): when every message sent by the sender of
\* the instance is dropped, no party, the sender included, ever delivers for
\* the instance.
RBCSilentSender ==
    (policy \in SilentSenderPolicies(rbc_sender))
        => \A p \in Parties : ~inst[p].delivered /\ inst[p].deliveries = 0

\* The silent sender has broadcast twice and sent its own ECHO, and no party
\* other than the sender has an instance that has seen anything.
RBCSilentSenderWitness ==
    /\ policy \in SilentSenderPolicies(rbc_sender)
    /\ Len(bcast) = 2
    /\ inst[rbc_sender].sent_echo
    /\ \A p \in Parties \ {rbc_sender} : inst[p] = NewInstance
    /\ \A p \in Parties : ~inst[p].delivered

\* C30 (RBC READY justification): a party broadcasts RBC_READY only while its
\* sent_ready flag is still false, setting it, so at most once for the
\* instance; and only for a payload for which it has recorded, at that moment,
\* ECHOs from at least N-F distinct parties or READYs from at least F+1
\* distinct other parties.
RBCReadyJustified ==
    [][ \A m \in net' \ net :
          m.msg_type = "RBC_READY" =>
            LET p  == m.sender
                pk == PayloadKey(m.payload)
                ec == inst'[p].echo_counts
                rc == inst'[p].ready_counts
            IN  /\ ~inst[p].sent_ready
                /\ inst'[p].sent_ready
                /\ \/ pk \in DOMAIN ec /\ Cardinality(ec[pk]) >= N - F
                   \/ pk \in DOMAIN rc /\ Cardinality(rc[pk] \ {p}) >= F + 1 ]_vars

\* One party has sent its READY on N-F ECHOs, and another on F+1 READYs
\* without N-F ECHOs for any payload; READY messages of both are in flight or
\* were handled.
RBCReadyJustifiedWitness ==
    \E p, q \in Parties :
        /\ p # q
        /\ inst[p].sent_ready
        /\ \E pk \in DOMAIN inst[p].echo_counts :
              Cardinality(inst[p].echo_counts[pk]) >= N - F
        /\ inst[q].sent_ready
        /\ \A pk \in DOMAIN inst[q].echo_counts :
              Cardinality(inst[q].echo_counts[pk]) < N - F
        /\ \E pk \in DOMAIN inst[q].ready_counts :
              Cardinality(inst[q].ready_counts[pk] \ {q}) >= F + 1
        /\ \E r \in Parties :
              /\ PayloadKey(bcast[1]) \in DOMAIN inst[r].ready_counts
              /\ q \in inst[r].ready_counts[PayloadKey(bcast[1])]

(***************************************************************************)
(* Properties of the beacon.                                               *)
(***************************************************************************)
\* The parties that have requested index k.
BeaconRequesters(k) ==
    IF k \in DOMAIN beacon.requests THEN beacon.requests[k] ELSE {}

\* C25 (beacon contract): a call of request(index, party) has returned only
\* if at least F+1 distinct parties have requested the index; it returned the
\* value the beacon holds for the index, so the same to every requester; and
\* the value of an index, once drawn, is never changed by a later request.
BeaconContract ==
    /\ [](\A p \in Parties :
            beacon_call[p].pc = "returned" =>
              /\ Cardinality(BeaconRequesters(beacon_call[p].index)) >= F + 1
              /\ beacon_call[p].index \in DOMAIN beacon.values
              /\ beacon_call[p].value = beacon.values[beacon_call[p].index])
    /\ [](\A k \in DOMAIN beacon.values :
            Cardinality(BeaconRequesters(k)) >= F + 1)
    /\ [][ \A k \in DOMAIN beacon.values :
             k \in DOMAIN beacon'.values
             /\ beacon'.values[k] = beacon.values[k] ]_vars

\* Three parties have returned from requests of one index with one value, the
\* third having asked after the value was drawn, and a party that asked for
\* another index alone is still waiting.
BeaconContractWitness ==
    \E k \in BeaconIndices, a, b, c, d \in Parties :
        /\ Cardinality({a, b, c, d}) = 4
        /\ \A p \in {a, b, c} :
              /\ beacon_call[p].pc = "returned"
              /\ beacon_call[p].index = k
              /\ beacon_call[p].value = beacon_call[a].value
        /\ beacon_call[d].pc = "waiting"
        /\ beacon_call[d].index # k
        /\ BeaconRequesters(beacon_call[d].index) = {d}

(***************************************************************************)
(* Properties of get_share.                                                *)
(***************************************************************************)
\* The steps that are a call of get_share at party p with a new answer.
GetShareStep(p) == css_got'[p] # css_got[p]

\* C27 (get_share error handling): a call of get_share at a party without a
\* direct share and with fewer than F+1 recorded echoes raises the error and
\* changes nothing of the CSS state; a call at a party with a share or with
\* at least F+1 echoes raises no error and returns a field element.
GetShareErrorHandling ==
    [][ \A p \in Parties :
          GetShareStep(p) =>
            IF ~css[p].has_share /\ Len(css[p].echoes) < F + 1
            THEN css_got'[p].error /\ UNCHANGED <<css, css_deal, net>>
            ELSE ~css_got'[p].error /\ css_got'[p].value \in Field ]_vars

\* The dealer omits to party 2, which holds one echo and no share: its call
\* of get_share has raised.
GetShareErrorHandlingWitness ==
    /\ css_deal.dealer = 4
    /\ MayDrop(4, 2, "CSS_SHARE")
    /\ ~css[2].has_share /\ Len(css[2].echoes) = 1
    /\ css_got[2].called /\ css_got[2].error

\* Party 2 has finalized on the echoes of others, the dealer omitting to it,
\* and its call of get_share has returned the value of the dealer's
\* polynomial at 2.
GetShareDerivedReached ==
    /\ css_deal.dealer = 4
    /\ MayDrop(4, 2, "CSS_SHARE")
    /\ css[2].finalized /\ Len(css[2].echoes) >= F + 1
    /\ css_got[2].called /\ ~css_got[2].error
    /\ css_got[2].value = Evaluate(css_deal.poly, 2)

(***************************************************************************)
(* Properties of the output reveal.                                        *)
(***************************************************************************)
\* The points of the mask shares recorded at party p.
MaskPoints(p) ==
    { reveal[p].mask_shares[k][1] : k \in 1..Len(reveal[p].mask_shares) }

\* C24 (output reveal): reveal_to_owner has returned at the owner only with
\* mask shares of at least F+1 distinct parties recorded, and it returned
\* y - m = o, o being the output and m the mask; at every other party it
\* returned 0.
RevealCorrect ==
    \A p \in Parties :
        reveal[p].pc = "done" =>
            IF p = mpc_in.owner
            THEN /\ Cardinality(MaskPoints(p)) >= F + 1
                 /\ reveal[p].result = mpc_in.fo[1]
                 /\ reveal[p].result = FSub(opn[p].result, mpc_in.fm[1])
            ELSE reveal[p].result = 0

\* The owner, party 1, has returned the output from mask shares of which the
\* first is not its own, and parties 2 and 3 have returned 0.
RevealCorrectWitness ==
    /\ mpc_in.owner = 1
    /\ reveal[1].pc = "done"
    /\ reveal[1].mask_shares[1][1] # 1
    /\ reveal[1].result = mpc_in.fo[1]
    /\ reveal[1].result # 0
    /\ reveal[2].pc = "done" /\ reveal[3].pc = "done"

(***************************************************************************)
(* Properties of the circuits.                                             *)
(***************************************************************************)
\* The bits decompose returned reconstruct, from the shares of any F + 1
\* parties of the active set, to the bits of the value decomposed.
DecomposedBits(c) ==
    \A k \in 1..NumBits : \A S \in Reconstructors(c.T) :
        ReconstructFrom(S, c.result[k]) = BitOf(c.x, k - 1)

\* C21 (bit decomposition correctness): for every x and every value r of the
\* random bits consumed, both below 2^NumBits, the k-th bit decompose
\* returns (least significant first) reconstructs to the k-th bit of x.
DecomposeCorrect ==
    circ.pc = "done" => DecomposedBits(circ)

\* The same when no reshare of the run arrived after RESHARE_TIMEOUT.
DecomposeCorrectInTime ==
    (circ.pc = "done" /\ circ.late = 0) => DecomposedBits(circ)

\* The same when the active set has N - F members.
DecomposeCorrectSmallSet ==
    (circ.pc = "done" /\ Cardinality(circ.T) = N - F) => DecomposedBits(circ)

\* A decomposition with a borrow out of the lowest bit has returned with no
\* late reshare.
DecomposeInTimeReached ==
    /\ circ.pc = "done"
    /\ circ.late = 0
    /\ Cardinality(circ.T) = N
    /\ BitOf(circ.r, 0) = 1
    /\ BitOf(circ.x, 0) = 1

\* The result of greater_than reconstructs, from the shares of any F + 1
\* parties of the active set, to 1 if a > b and to 0 otherwise.
ComparedValue(c) ==
    \A S \in Reconstructors(c.T) :
        ReconstructFrom(S, c.result) = (IF c.a > c.b THEN 1 ELSE 0)

\* C22 (comparison correctness): for all a and b below 2^NumBits given by
\* the sharings of their bits, most significant first, the value
\* greater_than returns reconstructs to 1 if a > b and to 0 otherwise.
GreaterThanCorrect ==
    circ.pc = "done" => ComparedValue(circ)

\* The same when no reshare of the run arrived after RESHARE_TIMEOUT.
GreaterThanCorrectInTime ==
    (circ.pc = "done" /\ circ.late = 0) => ComparedValue(circ)

\* The same when the active set has N - F members.
GreaterThanCorrectSmallSet ==
    (circ.pc = "done" /\ Cardinality(circ.T) = N - F) => ComparedValue(circ)

\* A comparison of equal values and one decided by the lowest bit have
\* returned among all four parties with no late reshare.
GreaterThanInTimeReached ==
    /\ circ.pc = "done"
    /\ circ.late = 0
    /\ Cardinality(circ.T) = N
    /\ circ.a = 3
    /\ circ.b = 2

\* reference_auction: the party of the highest bid among the active set and
\* the second-highest active bid.
WinnerOf(c) ==
    CHOOSE p \in c.T : \A q \in c.T : c.bids[q] <= c.bids[p]

SecondPriceOf(c) ==
    CHOOSE v \in { c.bids[q] : q \in c.T \ {WinnerOf(c)} } :
        \A q \in c.T \ {WinnerOf(c)} : c.bids[q] <= v

\* assert_correctness: the winner has the second price, the other parties of
\* the active set have 0, and a party outside it has None.
AuctionResults(c) ==
    \A p \in Parties :
        c.results[p] = IF p \notin c.T THEN None
                       ELSE IF p = WinnerOf(c) THEN SecondPriceOf(c)
                       ELSE 0

\* C23 (auction correctness): with pairwise distinct bids and at most one
\* omitting party, the party of the highest bid of the active set returns
\* the second-highest active bid, every other party of the active set
\* returns 0, and the omitting party returns None.
AuctionCorrect ==
    circ.stage = "returned" => AuctionResults(circ)

\* The same when no reshare of the run arrived after RESHARE_TIMEOUT.
AuctionCorrectInTime ==
    (circ.stage = "returned" /\ circ.late = 0) => AuctionResults(circ)

\* The same when the active set has N - F members: the runs with an omitting
\* party.
AuctionCorrectSmallSet ==
    (circ.stage = "returned" /\ Cardinality(circ.T) = N - F)
        => AuctionResults(circ)

\* An auction among all four parties has returned with no late reshare.
AuctionInTimeReached ==
    /\ circ.stage = "returned"
    /\ circ.late = 0
    /\ Cardinality(circ.T) = N

(***************************************************************************)
(* Properties of the party.                                                *)
(***************************************************************************)
\* Party p is in phase 2 with N - F accepted dealers.
AcceptedEnough(p) ==
    /\ party[p].pc = "phase2"
    /\ Cardinality(party[p].accepted) >= N - F

\* C26 (evidence-driven progress at the party): once the accepted set of a
\* party has N - F members the party calls ACS.run, in the runs in which no
\* timer has to expire, also when the sharing of one dealer never finalizes
\* at the party.
EvidenceDrivenProgress ==
    \A p \in Parties : AcceptedEnough(p) ~> (acs[p].pc # "idle")

\* The same in the runs in which the sharing of every dealer can finalize at
\* the parties that hear the others.
EvidenceDrivenWhenFinalizing ==
    \A p \in Parties :
        (AcceptedEnough(p) /\ policy = {DropAll(4, "receive")})
            ~> (acs[p].pc # "idle")

\* A party passes from phase 2 to phase 3 only when every task
\* _wait_for_acceptance has ended, by an acceptance or by its timer.
GatherWaitsForAll ==
    [][\A p \in Parties :
          (party[p].pc = "phase2" /\ party'[p].pc = "phase3")
              => \A d \in Parties \ {p} :
                    party[p].wait[d] \in {"accepted", "timeout"}]_vars

\* A party has N - F accepted dealers, the sharing of the remaining dealer
\* cannot finalize at it, and no timer has expired.
AcceptedEnoughStuck ==
    \E p \in Parties :
        /\ AcceptedEnough(p)
        /\ party[p].expired = {}
        /\ \E d \in Parties \ {p} :
              party[p].wait[d] = "waiting" /\ ~CSSMayFinalize(d, p)

\* C28 (cancellation on termination): when Party.run has returned at a
\* party, every task the party created (channel readers, handler tasks,
\* the tasks watch_rbc and run_ba_for of ACS) has finished or been
\* cancelled: none is pending, and none takes a step afterwards.
CancellationOnReturn ==
    /\ [](\A p \in Parties :
             party[p].pc = "returned" => PendingTasks(p) = {})
    /\ [][\A p \in Parties :
             party[p].pc = "returned"
                 => party'[p] = party[p] /\ acs'[p] = acs[p]]_vars

\* When Party.run has returned, the channel readers and the tasks
\* _wait_for_acceptance of the party have ended.
ReadersCancelledOnReturn ==
    \A p \in Parties :
        party[p].pc = "returned"
            => \A t \in PendingTasks(p) : t[1] \notin {"reader", "wait"}

\* When Party.run has returned with the output of the auction, every task
\* run_ba_for of the party has finished.
BARunnersFinishedOnOutput ==
    \A p \in Parties :
        (party[p].pc = "returned" /\ party[p].result = "output")
            => \A t \in PendingTasks(p) : t[1] # "run_ba_for"

\* Party.run has returned the output of the auction at a party whose task
\* watch_rbc for the silent party is still pending.
WatcherPendingReached ==
    \E p \in Parties :
        /\ party[p].pc = "returned"
        /\ party[p].result = "output"
        /\ PendingTasks(p) = {<<"watch_rbc", 4>>}

\* Party.run has returned at a party with a handler task still pending.
HandlerPendingReached ==
    \E p \in Parties :
        /\ party[p].pc = "returned"
        /\ <<"handler", 1>> \in PendingTasks(p)

(***************************************************************************)
(* Further properties of ACS.                                              *)
(***************************************************************************)
\* The BA instances that have decided 1 at party p.
DecidedOne(p) == { k \in DOMAIN acs[p].ba_results : acs[p].ba_results[k] = 1 }

\* C31 (ACS input discipline): at each party the task run_ba_for(j, estimate)
\* of a BA instance is created at most once, so that its input never changes
\* from 1 to 0 or back, and a BA instance has input 0 only when N-F BA
\* instances have decided 1 at that party.
ACSInputDiscipline ==
    /\ [][\A p, j \in Parties :
            j \in DOMAIN acs[p].ba_tasks
                => /\ j \in DOMAIN acs'[p].ba_tasks
                   /\ acs'[p].ba_tasks[j] = acs[p].ba_tasks[j]]_vars
    /\ [](\A p, j \in Parties :
            (j \in DOMAIN acs[p].ba_tasks /\ acs[p].ba_tasks[j] = 0)
                => Cardinality(DecidedOne(p)) >= N - F)
    /\ [](\A p \in Parties : DOMAIN acs[p].ba_tasks = acs[p].ba_started)

\* A party has passed step 4 with BA instances it had started with input 1
\* and a BA instance it starts with input 0.
ACSInputDisciplineWitness ==
    \E p \in CorrectParties, j, k \in Parties :
        /\ acs[p].pc \in {"all_wait", "done"}
        /\ acs[p].ba_tasks[j] = 0
        /\ acs[p].ba_tasks[k] = 1
        /\ Cardinality(DecidedOne(p)) = N - F

\* The correct parties at which the RBC instance of the proposal of j has
\* delivered.
DeliveredAtCorrect(j) == { q \in CorrectParties : j \in acs[q].rbc_delivered }

\* C32 (ACS validity): BA_j is recorded 1 at a correct party only if the RBC
\* instance of the proposal of j has delivered at some correct party.
ACSValidity ==
    \A p \in CorrectParties, j \in Parties :
        (j \in DOMAIN acs[p].ba_results /\ acs[p].ba_results[j] = 1)
            => DeliveredAtCorrect(j) # {}

\* The input 1 a party gives to its own BA instance does not by itself lead
\* to a decision 1: an instance recorded 1 at a correct party was started with
\* input 1 by at least F+1 parties.
ACSOwnInputAlone ==
    \A p \in CorrectParties, j \in Parties :
        (j \in DOMAIN acs[p].ba_results /\ acs[p].ba_results[j] = 1)
            => Cardinality({ q \in Parties : j \in DOMAIN acs[q].ba_tasks
                                             /\ acs[q].ba_tasks[j] = 1 }) >= F + 1

\* BA_j is recorded 1 at a correct party when the only parties that started
\* it with input 1 are j itself and the omitting party.
ACSOwnInputReached ==
    \E p \in CorrectParties, j \in CorrectParties :
        /\ j \in DOMAIN acs[p].ba_results /\ acs[p].ba_results[j] = 1
        /\ { q \in Parties : j \in DOMAIN acs[q].ba_tasks
                             /\ acs[q].ba_tasks[j] = 1 }
               = {j} \cup (Parties \ CorrectParties)

(***************************************************************************)
(* Further properties of CSS.                                              *)
(***************************************************************************)
\* Party p has finalized the session and holds a share while no CSS_SHARE has
\* been handled at p: p is not the dealer, and p has neither recorded an echo
\* of its own nor is about to.
CSSDerived(p) ==
    /\ css[p].status = "finalized"
    /\ css[p].has_share
    /\ p # css_deal.dealer
    /\ css[p].task = "none"
    /\ \A k \in 1..Len(css[p].echoes) : css[p].echoes[k][1] # p

\* C33 (CSS derived share): the share a party has derived by Lagrange
\* interpolation through its first F+1 echo points, when it finalized without
\* the dealer's CSS_SHARE, is the value of the dealer's polynomial at the
\* party's index, and get_share returns it.
CSSDerivedShare ==
    \A p \in Parties :
        CSSDerived(p)
            => /\ css[p].share = Evaluate(css_deal.poly, p)
               /\ GetShare(css[p], p) =
                      [error |-> FALSE, value |-> Evaluate(css_deal.poly, p)]

\* A party has derived its share from the echoes of two other parties while
\* the CSS_SHARE the dealer sent to it is still on its way, and the share is
\* not the secret.
CSSDerivedShareWitness ==
    \E p \in Parties :
        /\ CSSDerived(p)
        /\ Len(css[p].echoes) >= F + 1
        /\ \E m \in net : m.msg_type = "CSS_SHARE" /\ m.to = p
        /\ css[p].share # Evaluate(css_deal.poly, 0)

(***************************************************************************)
(* Further properties of the circuits.                                     *)
(***************************************************************************)
\* The party of the second-highest bid of the active set.
SecondOf(c) ==
    CHOOSE p \in c.T \ {WinnerOf(c)} :
        \A q \in c.T \ {WinnerOf(c)} : c.bids[q] <= c.bids[p]

\* Step 5 is over: is_second holds a wire for every bid.
SecondComputed(c) ==
    c.stage \in {"sp", "out", "reveal", "returned"}

\* Every F + 1 parties of the active set reconstruct from is_second[k] the
\* indicator of the second-highest bid.
SecondIndicator(c) ==
    \A k \in 1..Len(c.parties), S \in Reconstructors(c.T) :
        ReconstructFrom(S, c.is_second[k]) =
            IF c.parties[k] = SecondOf(c) THEN 1 ELSE 0

\* w * (w - 1) * (w - 3) / (-2) in the field.
IndicatorOfTwo(w) ==
    FMul(FInverse(FNeg(2)), FMul(FMul(w % PRIME, FSub(w, 1)), FSub(w, 3)))

\* C34 (second-price indicator): for pairwise distinct bids over an active
\* set of three or four parties, once step 5 is over is_second[i] is a sharing
\* of 1 for the party of the second-highest bid and of 0 for every other
\* party of the active set.
AuctionSecondIndicator ==
    SecondComputed(circ) => SecondIndicator(circ)

\* The same when no reshare of the run arrived after RESHARE_TIMEOUT, and
\* w * (w - 1) * (w - 3) * (-1/2) is 1 at w = 2 and 0 at w = 0, 1, 3.
AuctionSecondIndicatorInTime ==
    /\ \A w \in 0..3 : IndicatorOfTwo(w) = IF w = 2 THEN 1 ELSE 0
    /\ (SecondComputed(circ) /\ circ.late = 0) => SecondIndicator(circ)

\* The same when the active set has N - F members.
AuctionSecondIndicatorSmallSet ==
    (SecondComputed(circ) /\ Cardinality(circ.T) = N - F) => SecondIndicator(circ)

\* Step 5 is over for four bids with no late reshare.
AuctionSecondInTimeReached ==
    /\ SecondComputed(circ)
    /\ circ.late = 0
    /\ Cardinality(circ.T) = N

(***************************************************************************)
(* Properties of the channels.                                             *)
(***************************************************************************)
\* The messages of seq come in the order of their send calls.
InSendOrder(seq) == \A i, j \in 1..Len(seq) : i < j => seq[i] < seq[j]

\* C35 (per-channel FIFO): the receiver dequeues the messages of a channel
\* in the order in which the sender issued the send calls, whatever tasks of
\* the sender issued them and whatever delays were sampled.
ChannelFIFO == InSendOrder(chan.received)

\* The messages one task of the sender has sent are dequeued in the order of
\* its calls: a task awaits a send before it issues the next.
ChannelFIFOPerTask ==
    \A i, j \in 1..Len(chan.received) :
        (i < j /\ chan.sender[chan.received[i]] = chan.sender[chan.received[j]])
            => chan.received[i] < chan.received[j]

\* The queue itself keeps the order of the puts.
ChannelQueueOrder ==
    [][ chan.queue # <<>> /\ Len(chan'.received) > Len(chan.received)
          => chan'.received[Len(chan'.received)] = Head(chan.queue) ]_vars

\* Two tasks of the sender have sent, the later call with the shorter delay,
\* and the receiver has dequeued the later message first.
ChannelOvertaken ==
    /\ Len(chan.received) = 2
    /\ chan.received = <<2, 1>>
    /\ chan.sender[1] = "run" /\ chan.sender[2] = "handler_1"

\* One task has sent every message, with different delays, and all have
\* been dequeued.
ChannelOneTaskReached ==
    /\ Len(chan.received) = MaxSends
    /\ \A k \in 1..MaxSends : chan.sender[k] = "run"
    /\ chan.now > 1

(***************************************************************************)
(* Further properties of the output reveal.                                *)
(***************************************************************************)
\* The parties of whose mask share party p knows: its own share, and the
\* shares recorded from MASK_SHARE messages.
MaskSharesHeld(p) == {p} \cup MaskPoints(p)

\* C36 (mask confidentiality by routing): every MASK_SHARE message of the
\* session is on a channel to the owner of the output, and a party other than
\* the owner holds the mask shares of fewer than F+1 parties.
MaskRouting ==
    /\ \A m \in net : m.msg_type = "MASK_SHARE" => m.to = mpc_in.owner
    /\ \A p \in Parties \ {mpc_in.owner} :
          Cardinality(MaskSharesHeld(p)) < F + 1

\* The owner has recorded the mask share of another party and returned the
\* output, the share of a third party is still on its way to the owner, and
\* the two senders have returned.
MaskRoutingWitness ==
    \E p, q \in Parties \ {mpc_in.owner} :
        /\ p # q
        /\ reveal[mpc_in.owner].pc = "done"
        /\ p \in MaskPoints(mpc_in.owner)
        /\ \E m \in net : m.msg_type = "MASK_SHARE" /\ m.sender = q
        /\ reveal[p].pc = "done" /\ reveal[q].pc = "done"

(***************************************************************************)
(* The accounting of READY in RBC.                                         *)
(***************************************************************************)
\* The parties whose READY party p has counted, for any payload.
ReadySenders(p) ==
    UNION { inst[p].ready_counts[pk] : pk \in DOMAIN inst[p].ready_counts }

\* C37 (RBC own-READY accounting): between the handler steps, a party that
\* has sent READY for the instance has its own id among the READY senders it
\* has counted, whether N-F ECHOs or F+1 READYs made it send.
RBCOwnReadyCounted ==
    \A p \in Parties : inst[p].sent_ready => p \in ReadySenders(p)

\* A party that sends READY in a step that counts an ECHO, on N-F ECHOs,
\* counts its own READY in that step.
RBCOwnReadyOnEcho ==
    [][ \A p \in Parties :
          (~inst[p].sent_ready /\ inst'[p].sent_ready
              /\ inst'[p].echo_counts # inst[p].echo_counts)
            => p \in UNION { inst'[p].ready_counts[pk] :
                                pk \in DOMAIN inst'[p].ready_counts } ]_vars

\* A correct party has sent READY on F+1 READYs of others, having counted
\* fewer than N-F ECHOs, and its own id is not among the READY senders.
RBCAmplifiedUncounted ==
    \E p \in CorrectParties :
        /\ inst[p].sent_ready
        /\ p \notin ReadySenders(p)
        /\ Cardinality(ReadySenders(p)) = F + 1
        /\ \A pk \in DOMAIN inst[p].echo_counts :
              Cardinality(inst[p].echo_counts[pk]) < N - F

\* A party has sent READY on N-F ECHOs and counted its own READY.
RBCEchoReadyReached ==
    \E p \in CorrectParties :
        /\ inst[p].sent_ready
        /\ p \in ReadySenders(p)
        /\ \E pk \in DOMAIN inst[p].echo_counts :
              Cardinality(inst[p].echo_counts[pk]) >= N - F

(***************************************************************************)
(* Properties of phase 5 of the party.                                     *)
(***************************************************************************)
\* The dealers of the active set of party p whose session p did not accept
\* before it called ACS.run.
ActiveUnaccepted(p) ==
    IF acs[p].pc = "done" THEN acs[p].result \ party[p].accepted ELSE {}

\* C38: at a correct party that has completed ACS with the active set T, no
\* get_share(input_j) of phase 5, j in T, fails: run never ends with the
\* KeyError of get_share, also when T holds a dealer whose sharing the party
\* had not accepted when it started ACS.
SharesAvailable ==
    \A p \in Parties :
        Correct(p) /\ party[p].pc = "returned" => party[p].result # "KeyError"

\* Phase 5 does not fail at a party whose active set holds accepted dealers
\* only.
SharesAvailableAccepted ==
    \A p \in Parties :
        /\ party[p].pc = "returned"
        /\ acs[p].pc = "done"
        /\ acs[p].result \subseteq party[p].accepted
        => party[p].result # "KeyError"

\* A party has gone through phase 5 with accepted dealers only.
SharesAcceptedReached ==
    \E p \in Parties :
        /\ Correct(p)
        /\ party[p].pc = "returned"
        /\ party[p].result = "output"
        /\ acs[p].result \subseteq party[p].accepted

\* A correct party has completed ACS with a dealer in the active set whose
\* session it cannot hold a share of.
SharesMissingReached ==
    \E p \in Parties :
        /\ Correct(p)
        /\ party[p].pc = "phase3"
        /\ \E j \in ActiveUnaccepted(p) : ~CSSMayHold(j, p)

(***************************************************************************)
(* The order of the reshares and the calls of the multiplication.          *)
(***************************************************************************)
\* The members of the active set whose reshares party p has received.
ResharesReceived(p) == DOMAIN mpc[p].reshares \cap mpc_in.T

\* Party p has called multiply for the gate and holds the reshares of N-F
\* members of the active set.
MultiplyCanComplete(p) ==
    /\ mpc[p].pc # "idle"
    /\ Cardinality(ResharesReceived(p)) >= N - F

\* C39: at every correct party, in the active set or not, multiply returns
\* once the reshares of N-F members of the active set are there, whether they
\* were handled before or after set_active_set and the call of multiply.
MultiplyCompletes ==
    \A p \in Parties :
        (Correct(p) /\ MultiplyCanComplete(p)) ~> (mpc[p].pc = "done")

\* The same of the members of the active set.
MultiplyCompletesMember ==
    \A p \in Parties :
        (p \in mpc_in.T /\ MultiplyCanComplete(p)) ~> (mpc[p].pc = "done")

\* A party outside the active set waits in multiply with the reshares of the
\* whole active set handled before set_active_set and no event set.
MultiplyEarlyReshares ==
    \E p \in Parties \ mpc_in.T :
        /\ mpc[p].pc = "wait_enough"
        /\ ResharesReceived(p) = mpc_in.T
        /\ ~mpc[p].reshare_enough_event
        /\ \A m \in net : m.to # p

\* A member of the active set has returned from multiply with reshares
\* handled before its set_active_set.
MultiplyMemberReached ==
    \E p \in mpc_in.T :
        /\ mpc[p].pc = "done"
        /\ Len(mpc[p].used_set) >= N - F

(***************************************************************************)
(* The coin of BA.                                                         *)
(***************************************************************************)
\* The votes party p holds for round r, per value.
VotesFor(p, r, v) == Cardinality(ba[p].votes[r][v])

\* C40: with N >= 3F+1 a round that holds the votes of N-F parties holds F+1
\* votes for one value, so run never takes its coin branch: no run waits for
\* the beacon and the beacon is never requested.
BACoinUnreachable ==
    /\ \A p \in Parties : \A r \in DOMAIN ba[p].votes :
          VotesFor(p, r, 0) + VotesFor(p, r, 1) >= N - F
          => VotesFor(p, r, 0) >= F + 1 \/ VotesFor(p, r, 1) >= F + 1
    /\ \A p \in Parties : ba_pc[p] # "coin"
    /\ beacon = NewBeacon

\* A party has gone through the decision logic of round 1 with N-F votes split
\* between the two values, and went on to round 2 with the estimate of the
\* simple majority.
BACoinUnreachableWitness ==
    \E p \in Parties :
        /\ ba[p].round >= 2
        /\ 1 \in DOMAIN ba[p].votes
        /\ VotesFor(p, 1, 0) >= 1
        /\ VotesFor(p, 1, 1) >= 1
        /\ VotesFor(p, 1, 0) + VotesFor(p, 1, 1) >= N - F
        /\ ~ba[p].decided

====
